---- MODULE Spec2Model ----
(***************************************************************************)
(* Dynamic socket synchronisation of the Mockba ComfyUI extension.         *)
(*                                                                         *)
(* One node with dynamic inputs is modelled together with the host editor  *)
(* operations that raise its onConnectionsChange callback.  Two variants   *)
(* of the callback are modelled: src/js/common.js (node kinds mbSelect,    *)
(* mbDemux, ...) and src/js/mockba.js (node kinds "mb Select", ...).       *)
(*                                                                         *)
(* Slot indices are 1-based here (JavaScript index + 1); positions among   *)
(* the dynamic slots (lastConnectedPos) keep the 0-based value of the      *)
(* code, with -1 for "none".                                               *)
(***************************************************************************)
EXTENDS Integers, Sequences, FiniteSets, TLC

VARIABLES
    kind,      \* nodeData.name of the node (fixes the variant and the prefix)
    inputs,    \* this.inputs: sequence of [name, type, link]
    outType,   \* this.outputs[0].type
    sel,       \* the 'select' widget: [min, max, value] (options.min/max, value)
    ev,        \* the last host operation and what the callback did in it
    pre,       \* inputs / outType / sel as they were before the last operation
    hookCount, \* per lifecycle event: how many wrappers this code has installed
    hookOrig,  \* the lifecycle events that had a callback before the first wrapper
    hookFired, \* the last lifecycle event raised and the calls it led to
    code,      \* the 'code' widget of an mbExec / mbEval node, its toggle and its saved form
    graph,     \* dynamic nodes, their links and the replacements of the last operation
    cancel,    \* the 'Cancel Workflow' button: requests in flight and toasts shown
    trunc,     \* one call of truncateText: arguments, loop variables, result
    fmt,       \* one call of sprintf: format, arguments, what each directive read
    batch,     \* a dynamic batch node: sockets, count widget, popup, timers
    picker,    \* color picking: sessions, page listeners, cursor style, images
    viewer     \* an image viewer node: results, image loads, widgets

\* the variables of the lifecycle-hook model
hookVars == <<hookCount, hookOrig, hookFired>>

\* everything but the socket model
later == <<trunc, fmt, batch, picker, viewer>>

others == <<hookVars, code, graph, cancel, later>>

vars == <<kind, inputs, outType, sel, ev, pre, others>>

(***************************************************************************)
(* Bounds of the model.                                                    *)
(***************************************************************************)
MaxOps == 4        \* user operations on the graph of dynamic nodes
NTargets == 1      \* inputs of plain target nodes
MaxPresses == 4    \* presses of the Cancel Workflow button
MaxHooks == 2      \* wrappers installed over one lifecycle event
MaxText == 2       \* length of a code text the user types, in symbols
MaxDyn == 3        \* a connection is offered only while fewer dynamic slots exist
NPeers == 3        \* peer outputs that can be linked to the node
InitSelMax == 3    \* largest value the selector can hold before the first event

(***************************************************************************)
(* Node kinds, names and types.                                            *)
(***************************************************************************)
\* "mbEval" stands for mbEval and mbExec, "mb Eval" for mb Eval and mb Exec: the code
\* treats the two kinds of each pair alike in every branch
CommonKinds == {"mbImageBatch", "mbAudioCat", "mbSelect", "mbDemux", "mbEval"}

MockbaKinds == {"mb Image Batch", "mb Select", "mb Demux", "mb Eval"}

Kinds == CommonKinds \cup MockbaKinds

IsCommon == kind \in CommonKinds

IsMockba == kind \in MockbaKinds

input_name(k) ==
    CASE k \in {"mbImageBatch", "mb Image Batch"} -> "image"
      [] k = "mbAudioCat" -> "audio"
      [] k \in {"mbEval", "mb Eval", "mb Exec"} -> "i"
      [] OTHER -> "input"

IsSelectKind(k) == k \in {"mbSelect", "mb Select"}

IsDemuxKind(k) == k \in {"mbDemux", "mb Demux"}

IsEvalKind(k) == k \in {"mbEval", "mb Eval", "mb Exec"}

\* a slot name: the special names carry no number
SelectName == [pfx |-> "select", n |-> 0]

CodeName == [pfx |-> "code", n |-> 0]

DynName(pfx, k) == [pfx |-> pfx, n |-> k]

IsSpecialName(nm) == nm = SelectName \/ nm = CodeName

NoLink == 0

Untyped == "none"

Wildcard == "*"

\* the peers: type of the peer's output socket, and whether the peer is a Reroute
PeerType(p) ==
    CASE p % 4 = 1 -> "IMAGE"
      [] p % 4 = 2 -> Wildcard
      [] p % 4 = 3 -> "MASK"
      [] OTHER -> Wildcard

PeerIsReroute(p) == p % 4 \in {0, 3}

Peers == 1..NPeers

Max(a, b) == IF a >= b THEN a ELSE b

Min(a, b) == IF a <= b THEN a ELSE b

(***************************************************************************)
(* The host's socket operations used by the callbacks.                     *)
(***************************************************************************)
RemoveAt(s, i) == [j \in 1..(Len(s) - 1) |-> IF j < i THEN s[j] ELSE s[j + 1]]

\* the log of what a callback did during one host operation
\*   rmLinked: an input that still had a link was removed
\*   resized : setSize(computeSize()) and setDirtyCanvas(true, true) were called
\*   removed : how many times removeInput spliced a slot out of this.inputs
\*   trimmed : the slot index removed by the trim step (0: the step removed nothing)
\*   dropped : disconnectInput was called on the peer input of an output link
\*   threw   : the callback ended with a TypeError instead of returning
NoLog == [rmLinked |-> FALSE, resized |-> FALSE, removed |-> 0, trimmed |-> 0,
          dropped |-> FALSE, threw |-> FALSE]

\* which structure of the node is absent when the callback runs
\*   "widgets": this.widgets is undefined      "select" : this.widgets is empty
\*   "options": the selector has no .options   "outputs": this.outputs is undefined
\*   "entry"  : this.inputs has one more element than entries, a hole at the end
Absent == {"widgets", "select", "options", "outputs", "entry"}

Complete == "none"

\* the callback's working state: the node's fields plus the log
NodeState(ins, ot, sw) ==
    [inputs |-> ins, outType |-> ot, sel |-> sw, absent |-> Complete, log |-> NoLog]

\* a property of undefined is read: the callback stops here with a TypeError
Throw(st) == [st EXCEPT !.log.threw = TRUE]

\* this.removeInput(slot): the slot is spliced out of this.inputs
removeInput(st, slot) ==
    IF slot \in 1..Len(st.inputs)
    THEN [st EXCEPT !.inputs = RemoveAt(@, slot),
                    !.log.rmLinked = @ \/ st.inputs[slot].link # NoLink,
                    !.log.removed = @ + 1]
    ELSE st

\* this.addInput(name, type): a new unlinked slot at the end of this.inputs
addInput(st, nm, ty) ==
    [st EXCEPT !.inputs = Append(@, [name |-> nm, type |-> ty, link |-> NoLink])]

(***************************************************************************)
(* Helpers shared by the two callbacks.                                    *)
(***************************************************************************)
\* converted_count: 1 for a 'select' input plus 1 for a 'code' input
converted_count(ins) ==
    (IF \E i \in 1..Len(ins) : ins[i].name = SelectName THEN 1 ELSE 0)
  + (IF \E i \in 1..Len(ins) : ins[i].name = CodeName THEN 1 ELSE 0)

\* global indices of the dynamic inputs, in slot order (dynamicEntries[*].idx)
DynIdx(ins) == SelectSeq([i \in 1..Len(ins) |-> i], LAMBDA i : ~IsSpecialName(ins[i].name))

\* the dynamic inputs themselves, in slot order
Dynamics(ins) == SelectSeq(ins, LAMBDA x : ~IsSpecialName(x.name))

\* (mutant) the scan stops at the first linked dynamic input
FirstConnectedPos(ins) ==
    LET d == Dynamics(ins)
        S == {i \in 1..Len(d) : d[i].link # NoLink}
    IN IF S = {} THEN -1 ELSE (CHOOSE i \in S : \A j \in S : i <= j) - 1

\* 0-based position, among the dynamic inputs, of the last linked one; -1 if none
LastConnectedPos(ins) ==
    LET d == Dynamics(ins)
        S == {i \in 1..Len(d) : d[i].link # NoLink}
    IN IF S = {} THEN -1 ELSE (CHOOSE i \in S : \A j \in S : j <= i) - 1

\* global index of the last dynamic input (0 when there is none)
LastDynamicIndex(ins) ==
    LET S == {i \in 1..Len(ins) : ~IsSpecialName(ins[i].name)}
    IN IF S = {} THEN 0 ELSE CHOOSE i \in S : \A j \in S : j <= i

\* (mutant) the suffix is the slot's index in this.inputs, special slots counted
RenameByGlobalIndex(ins, pfx) ==
    [i \in 1..Len(ins) |->
        IF IsSpecialName(ins[i].name) THEN ins[i]
        ELSE [ins[i] EXCEPT !.name = DynName(pfx, i)]]

\* (mutant) the test for 'select' and 'code' is missing: every slot is renamed
RenameEverySlot(ins, pfx) ==
    [i \in 1..Len(ins) |-> [ins[i] EXCEPT !.name = DynName(pfx, i)]]

\* rename dynamic inputs sequentially: <prefix>1, <prefix>2, ... over non-special slots
RenameDynamic(ins, pfx) ==
    [i \in 1..Len(ins) |->
        IF IsSpecialName(ins[i].name) THEN ins[i]
        ELSE [ins[i] EXCEPT !.name =
                 DynName(pfx, Cardinality({j \in 1..i : ~IsSpecialName(ins[j].name)}))]]

(***************************************************************************)
(* src/js/common.js: onConnectionsChange                                   *)
(***************************************************************************)
\* (mutant) the test index === lastDynamicIndex is missing
CommonTrimAnySlot(st, index, connected, trace) ==
    LET ins == st.inputs IN
    IF /\ ~connected
       /\ Len(ins) > 1 + converted_count(ins)
       /\ trace = "user"
       /\ index \in 1..Len(ins)
       /\ ~IsSpecialName(ins[index].name)
    THEN [removeInput(st, index) EXCEPT !.log.trimmed = index]
    ELSE st

\* trim: a user disconnect removes the slot only if it is the last dynamic slot
CommonTrim(st, index, connected, trace) ==
    LET ins == st.inputs IN
    IF /\ ~connected
       /\ Len(ins) > 1 + converted_count(ins)
       /\ trace = "user"
       /\ index \in 1..Len(ins)
       /\ ~IsSpecialName(ins[index].name)
       /\ index = LastDynamicIndex(ins)
    THEN [removeInput(st, index) EXCEPT !.log.trimmed = index]
    ELSE st

\* (mutant) no free slot is counted after the last connected one
DesiredNoFreeSlot(ins) == Max(1, LastConnectedPos(ins) + 1)

\* desiredDynamicCount = Math.max(1, lastConnectedPos + 2)
DesiredDynamicCount(ins) == Max(1, LastConnectedPos(ins) + 2)

\* (mutant) the position among the dynamic entries is used as the global index
RemovalIndexLocal(entries, i) == i

\* which global index the removal loop passes to removeInput for dynamic entry i
RemovalIndex(entries, i) == entries[i]

\* remove trailing dynamic inputs from the end, entries i = current .. desired+1
RECURSIVE RemoveTrailing(_, _, _, _)
RemoveTrailing(st, entries, i, desired) ==
    IF i <= desired THEN st
    ELSE LET g == entries[i]
             st2 == IF g \in 1..Len(st.inputs) /\ st.inputs[g].link = NoLink
                    THEN removeInput(st, RemovalIndex(entries, i))
                    ELSE st
         IN RemoveTrailing(st2, entries, i - 1, desired)

\* the type given to an input added by common.js: outputs[0].type if concrete
CommonAddedType(ot) == IF ot # Untyped /\ ot # Wildcard THEN ot ELSE Untyped

\* (this.outputs && this.outputs[0]) ? this.outputs[0].type : undefined
CommonOutType(st) == IF st.absent = "outputs" THEN Untyped ELSE st.outType

\* add missing inputs named <prefix>(current + i + 1), i = 0 .. desired-current-1
RECURSIVE AddMissing(_, _, _, _, _)
AddMissing(st, pfx, current, i, n) ==
    IF i >= n THEN st
    ELSE AddMissing(addInput(st, DynName(pfx, current + i + 1),
                             CommonAddedType(CommonOutType(st))),
                    pfx, current, i + 1, n)

\* (mutant) every event adds one more free slot
CommonNormalizeAddsOne(st, pfx) ==
    addInput(st, DynName(pfx, Len(DynIdx(st.inputs)) + 1),
             CommonAddedType(CommonOutType(st)))

\* normalise: exactly one free dynamic input after the last connected one
CommonNormalize(st, pfx) ==
    LET entries == DynIdx(st.inputs)
        desired == DesiredDynamicCount(st.inputs)
        current == Len(entries)
    IN IF current > desired THEN RemoveTrailing(st, entries, current, desired)
       ELSE IF current < desired THEN AddMissing(st, pfx, current, 0, desired - current)
       ELSE st

\* which kinds get their 'select' widget adjusted by common.js
CommonAdjustsSelect(k) == k = "mbSelect"

\* (mutant) the upper bound counts the trailing free slot too
CommonSelectWidgetCountFree(sw, ins) ==
    LET lastConnected == LastConnectedPos(ins) IN
    IF lastConnected = -1
    THEN [min |-> 0, max |-> 0, value |-> 0]
    ELSE [min |-> 1, max |-> lastConnected + 2,
          value |-> Min(Max(sw.value, 1), lastConnected + 2)]

\* (mutant) the value is only cut at the upper bound
CommonSelectWidgetNoLow(sw, ins) ==
    LET lastConnected == LastConnectedPos(ins) IN
    IF lastConnected = -1
    THEN [min |-> 0, max |-> 0, value |-> 0]
    ELSE [min |-> 1, max |-> lastConnected + 1,
          value |-> Min(sw.value, lastConnected + 1)]

\* the new range and value of the 'select' widget
CommonSelectWidget(sw, ins) ==
    LET lastConnected == LastConnectedPos(ins) IN
    IF lastConnected = -1
    THEN [min |-> 0, max |-> 0, value |-> 0]
    ELSE [min |-> 1, max |-> lastConnected + 1,
          value |-> Min(Max(sw.value, 1), lastConnected + 1)]

\* (mutant) the node is resized on connect events only
CommonRedrawOnConnect(st, connected) ==
    IF connected THEN [st EXCEPT !.log.resized = TRUE] ELSE st

\* setSize(computeSize()) and setDirtyCanvas(true, true), on disconnect events only
CommonRedraw(st, connected) ==
    IF ~connected THEN [st EXCEPT !.log.resized = TRUE] ELSE st

\* whether the 'select' widget is found: this.widgets exists and holds it
CommonFindsSelectWidget(st) == st.absent \notin {"widgets", "select"}

\* (mutant) the test of the event type is missing
CommonHandlerAnyType(k, st, type, index, connected, hasLinkInfo, trace) ==
    IF ~hasLinkInfo THEN st
    ELSE IF st.absent = "entry" THEN Throw(st)
    ELSE LET s1 == CommonTrim(st, index, connected, trace)
             s2 == CommonNormalize(s1, input_name(k))
             s3 == [s2 EXCEPT !.inputs = RenameDynamic(@, input_name(k))]
             s4 == IF CommonAdjustsSelect(k) /\ CommonFindsSelectWidget(st)
                   THEN [s3 EXCEPT !.sel = CommonSelectWidget(@, s3.inputs)]
                   ELSE s3
         IN CommonRedraw(s4, connected)

\* a node has 'select' or 'code' among its inputs, never both, so one of the two
\* find() calls at the top scans this.inputs to its end and reads x.name of the hole
CommonHandler(k, st, type, index, connected, hasLinkInfo, trace) ==
    IF ~hasLinkInfo THEN st
    ELSE IF type # 1 THEN st
    ELSE IF st.absent = "entry" THEN Throw(st)
    ELSE LET s1 == CommonTrim(st, index, connected, trace)
             s2 == CommonNormalize(s1, input_name(k))
             s3 == [s2 EXCEPT !.inputs = RenameDynamic(@, input_name(k))]
             s4 == IF CommonAdjustsSelect(k) /\ CommonFindsSelectWidget(st)
                   THEN [s3 EXCEPT !.sel = CommonSelectWidget(@, s3.inputs)]
                   ELSE s3
         IN CommonRedraw(s4, connected)

(***************************************************************************)
(* src/js/mockba.js: onConnectionsChange                                   *)
(***************************************************************************)
\* the loop over this.inputs: every input not named 'select' gets type t
MockbaSetInputTypes(st, t) ==
    [st EXCEPT !.inputs = [i \in 1..Len(@) |->
                              IF @[i].name # SelectName THEN [@[i] EXCEPT !.type = t] ELSE @[i]]]

\* (mutant) the output keeps its type
MockbaPropagateInputsOnly(st, t) == MockbaSetInputTypes(st, t)

\* adopt type t: every input not named 'select', and output 0; without an output
\* list the assignment to this.outputs[0].type throws after the loop has run
MockbaPropagate(st, t) ==
    IF st.absent = "outputs" THEN Throw(MockbaSetInputTypes(st, t))
    ELSE [MockbaSetInputTypes(st, t) EXCEPT !.outType = t]

\* type == 2: an event on the node's output side; li is the peer whose input the
\* link ends in, PeerType(li) stands for link_info.type.  disconnectInput on the
\* peer comes back as an output event with connected = false, which returns at once
MockbaOutputSide(k, st, index, connected, li) ==
    IF ~(connected /\ index = 1) THEN st
    ELSE LET s0 == IF (IsSelectKind(k) \/ IsDemuxKind(k)) /\ PeerIsReroute(li)
                   THEN [st EXCEPT !.log.dropped = TRUE]
                   ELSE st
         IN IF IsEvalKind(k) THEN s0
            ELSE IF s0.absent = "outputs" THEN Throw(s0)
            ELSE IF s0.outType # Wildcard THEN s0
            ELSE IF PeerType(li) = Wildcard THEN [s0 EXCEPT !.log.dropped = TRUE]
            ELSE MockbaPropagate(s0, PeerType(li))

\* (mutant) the last input is removed instead of the disconnected one
MockbaTrimLast(st, index, connected, trace) ==
    LET ins == st.inputs IN
    IF /\ ~connected
       /\ Len(ins) > 1 + converted_count(ins)
       /\ trace = "user"
       /\ ins[index].name # SelectName
    THEN [removeInput(st, Len(ins)) EXCEPT !.log.trimmed = Len(ins)]
    ELSE st

\* trim: a user disconnect removes the disconnected slot itself
MockbaTrim(st, index, connected, trace) ==
    LET ins == st.inputs IN
    IF /\ ~connected
       /\ Len(ins) > 1 + converted_count(ins)
       /\ trace = "user"
       /\ ins[index].name # SelectName
    THEN [removeInput(st, index) EXCEPT !.log.trimmed = index]
    ELSE st

\* whether the last dynamic slot is linked, as the code tests it on the last two inputs
MockbaLastIsLinked(ins) ==
    LET n == Len(ins) IN
    \/ n >= 2 /\ ins[n].name = SelectName /\ ins[n - 1].link # NoLink
    \/ n >= 2 /\ ins[n].name = CodeName /\ ins[n - 1].link # NoLink
    \/ ~IsSpecialName(ins[n].name) /\ ins[n].link # NoLink

\* (mutant) the new slot is numbered by the length of this.inputs
MockbaAddTrailingAllCount(k, st) ==
    IF MockbaLastIsLinked(st.inputs)
    THEN addInput(st, DynName(input_name(k), Len(st.inputs) + 1),
                  IF IsEvalKind(k) THEN Untyped ELSE st.outType)
    ELSE st

\* add one slot <prefix><slot_i> when the last dynamic slot is linked; the type
\* argument this.outputs[0].type is read before addInput is called
MockbaAddTrailing(k, st) ==
    LET slot_i == Len(DynIdx(st.inputs)) + 1 IN
    IF ~MockbaLastIsLinked(st.inputs) THEN st
    ELSE IF IsEvalKind(k) THEN addInput(st, DynName(input_name(k), slot_i), Untyped)
    ELSE IF st.absent = "outputs" THEN Throw(st)
    ELSE addInput(st, DynName(input_name(k), slot_i), st.outType)

\* widgets[0]: max follows the number of inputs, the value is pulled into 1..max
MockbaSelectWidget(sw, ins, hasSelectSlot) ==
    LET mx == IF hasSelectSlot THEN Len(ins) - 2 ELSE Len(ins) - 1
        v1 == Min(sw.value, mx)
    IN [min |-> sw.min, max |-> mx, value |-> IF mx > 0 /\ v1 = 0 THEN 1 ELSE v1]

RECURSIVE MockbaHandler(_, _, _, _, _, _, _)
\* (mutant) the call of disconnectInput is missing: the offered link stays
MockbaDisconnectInputKeepsLink(k, st, slot, li, trace) == st

\* this.disconnectInput(slot) called from inside the callback: the host clears the
\* link and raises the callback again (connected = false) before it returns
MockbaDisconnectInput(k, st, slot, li, trace) ==
    IF slot \notin 1..Len(st.inputs) THEN st
    ELSE IF st.inputs[slot].link = NoLink THEN st
    ELSE MockbaHandler(k, [st EXCEPT !.inputs[slot].link = NoLink],
                       1, slot, FALSE, li, trace)

\* the select-widget step: this.widgets[0].options.max is written when the widget
\* list exists, whatever it holds
MockbaWidgetStep(k, st, hasSelectSlot) ==
    IF ~(IsSelectKind(k) \/ IsDemuxKind(k)) THEN st
    ELSE IF st.absent = "widgets" THEN st
    ELSE IF st.absent \in {"select", "options"} THEN Throw(st)
    ELSE [st EXCEPT !.sel = MockbaSelectWidget(@, st.inputs, hasSelectSlot)]

\* the steps after the type propagation: find, trim, rename, add, widget
MockbaSynchronize(k, st, index, connected, trace) ==
    IF st.absent = "entry" THEN Throw(st)
    ELSE LET hasSelectSlot == \E i \in 1..Len(st.inputs) : st.inputs[i].name = SelectName
             s2 == MockbaTrim(st, index, connected, trace)
             s3 == [s2 EXCEPT !.inputs = RenameDynamic(@, input_name(k))]
             s4 == MockbaAddTrailing(k, s3)
         IN IF s4.log.threw THEN s4 ELSE MockbaWidgetStep(k, s4, hasSelectSlot)

MockbaHandler(k, st, type, index, connected, li, trace) ==
    IF li = NoLink THEN st
    ELSE IF type = 2 THEN MockbaOutputSide(k, st, index, connected, li)
    ELSE
      LET s0 == IF (IsSelectKind(k) \/ IsDemuxKind(k)) /\ PeerIsReroute(li)
                THEN MockbaDisconnectInput(k, st, index, li, trace)
                ELSE st
      IN
      IF s0.log.threw THEN s0
      ELSE IF index \notin 1..Len(s0.inputs) THEN Throw(s0)
      ELSE IF IsSpecialName(s0.inputs[index].name) THEN s0
      ELSE IF s0.inputs[1].type = Wildcard /\ ~IsEvalKind(k) /\ PeerType(li) = Wildcard
      THEN MockbaDisconnectInput(k, s0, index, li, trace)
      ELSE
        LET s1 == IF s0.inputs[1].type = Wildcard /\ ~IsEvalKind(k)
                  THEN MockbaPropagate(s0, PeerType(li))
                  ELSE s0
        IN IF s1.log.threw THEN s1
           ELSE MockbaSynchronize(k, s1, index, connected, trace)

(***************************************************************************)
(* The callback installed on the node's kind.                              *)
(***************************************************************************)
onConnectionsChange(k, st, type, index, connected, li, trace) ==
    IF k \in CommonKinds
    THEN CommonHandler(k, st, type, index, connected, li # NoLink, trace)
    ELSE MockbaHandler(k, st, type, index, connected, li, trace)

(***************************************************************************)
(* The node as created by the host from its definition.                    *)
(***************************************************************************)
HasSelectWidget(k) == IsSelectKind(k) \/ IsDemuxKind(k)

InitDynType(k) ==
    CASE k \in {"mbImageBatch", "mb Image Batch"} -> "IMAGE"
      [] k = "mbAudioCat" -> "AUDIO"
      [] OTHER -> Wildcard

InitSpecial(k) ==
    IF HasSelectWidget(k) THEN [name |-> SelectName, type |-> "INT", link |-> NoLink]
    ELSE [name |-> CodeName, type |-> "STRING", link |-> NoLink]

InitSelect(k) ==
    IF HasSelectWidget(k) THEN [min |-> 1, max |-> InitSelMax, value |-> 1]
    ELSE [min |-> 0, max |-> 0, value |-> 0]

InitInputs(k, converted) ==
    LET d == <<[name |-> DynName(input_name(k), 1), type |-> InitDynType(k), link |-> NoLink]>>
    IN IF converted /\ (HasSelectWidget(k) \/ IsEvalKind(k)) THEN Append(d, InitSpecial(k)) ELSE d

Snapshot == [inputs |-> inputs, outType |-> outType, sel |-> sel]

(***************************************************************************)
(* Lifecycle hooks: src/js/common.js addNodeCreatedHook,                   *)
(* addNodeDrawForegroundHook, addNodeExecutedHook and the assignment of    *)
(* nodeType.prototype.onConnectionsChange.  Wrapper n of an event is the   *)
(* n-th one installed; callback 0 is the one found there before wrapper 1. *)
(***************************************************************************)
HookEvents == {"onNodeCreated", "onDrawForeground", "onExecuted", "onConnectionsChange"}

Undefined == "undefined"

\* what callback i returns when called
HookReturn(i) == IF i = 0 THEN "r0" ELSE Undefined

\* whether the wrapper of event e calls the callback it replaced:
\* onNodeCreated?.apply(this, arguments) and alike; the onConnectionsChange of
\* common.js saves the previous callback in a constant and never calls it
CallsPrevious(e) == e # "onConnectionsChange"

\* whether the wrapper of event e returns what the replaced callback returned
ReturnsPrevious(e) == e \in {"onNodeCreated", "onDrawForeground"}

\* the calls made when wrapper n of event e is invoked with receiver t and
\* arguments a, in order: [fn, this, args]
RECURSIVE HookCalls(_, _, _, _, _)
HookCalls(e, n, t, a, orig) ==
    IF n = 0
    THEN IF e \in orig THEN <<[fn |-> 0, this |-> t, args |-> a]>> ELSE <<>>
    ELSE (IF CallsPrevious(e) THEN HookCalls(e, n - 1, t, a, orig) ELSE <<>>)
         \o <<[fn |-> n, this |-> t, args |-> a]>>

\* the value returned by wrapper n of event e
RECURSIVE HookResult(_, _, _)
HookResult(e, n, orig) ==
    IF n = 0 THEN (IF e \in orig THEN HookReturn(0) ELSE Undefined)
    ELSE IF CallsPrevious(e) /\ ReturnsPrevious(e) THEN HookResult(e, n - 1, orig)
    ELSE Undefined

(***************************************************************************)
(* The hidden marker of the code widget: src/js/common.js (mbExec, mbEval) *)
(* and src/js/mockba.js (mb Exec).  A text is a sequence of symbols: "M"   *)
(* is the marker "# __HIDDEN__" as a whole, "n" a newline, "x" any other   *)
(* character.                                                              *)
(***************************************************************************)
Symbols == {"M", "n", "x"}

HIDDEN_MARKER == <<"M">>

Texts == UNION {[1..n -> Symbols] : n \in 0..MaxText}

\* code.startsWith(HIDDEN_MARKER)
isCodeHidden(c) == Len(c) >= 1 /\ c[1] = "M"

\* !isCodeHidden(code) ? (code ? HIDDEN_MARKER + "\n" + code : HIDDEN_MARKER) : code
addHiddenMarker(c) ==
    IF ~isCodeHidden(c)
    THEN (IF c # <<>> THEN HIDDEN_MARKER \o <<"n">> \o c ELSE HIDDEN_MARKER)
    ELSE c

\* isCodeHidden(code) ? code.substring(HIDDEN_MARKER.length + 1) : code
removeHiddenMarker(c) ==
    IF isCodeHidden(c) THEN SubSeq(c, Len(HIDDEN_MARKER) + 2, Len(c)) ELSE c

\* a node just created: the widget is visible, the check of the text is pending
NewCodeWidget(v) ==
    [type |-> "customtext", value |-> v, toggle |-> "Hide Code", pending |-> TRUE]

\* the widget w and the history of the node's text
\*   orig / tracked : the text on which 'Hide Code' was last pressed, and whether
\*                    the text has not been typed over since
\*   op             : the last step
\*   sinceLoad      : the node was loaded and not touched by the user since
\*   loadedHidden   : the widget was hidden when the loaded data was serialized
CodeIdle ==
    code = [w |-> NewCodeWidget(<<>>), orig |-> <<>>, tracked |-> FALSE, op |-> "create",
            sinceLoad |-> FALSE, loadedHidden |-> FALSE]

\* the destroy-and-recreate model at rest, and the graph it starts from
Variants == {"part_002", "part_009"}

\* nodeData.name of the nodes of the graph: a kind the variant recreates
VariantClass(v) == IF v = "part_002" THEN "mbImageBatch" ELSE "mb Exec"

\* the type addInput gives to a dynamic slot of that kind
VariantType(v) == IF v = "part_002" THEN "IMAGE" ELSE Untyped

Targets == 1..NTargets

\* the plain origin nodes whose outputs the user links to the dynamic nodes
Origins == {1, 2}

\* no node of the graph gets more inputs: one per origin, one for the other dynamic
\* node, one free
MaxSlots == Cardinality(Origins) + 2

\* LiteGraph.createNode(nodeType.comfyClass): one free dynamic slot, default position
createNode(v) ==
    [status |-> "live", title |-> "node", pos |-> 0, role |-> "none",
     inputs |-> <<[name |-> DynName(input_name(VariantClass(v)), 1),
                   type |-> VariantType(v), link |-> NoLink]>>]

\* the graph the user starts from: two nodes of the class, side by side
NewGraph(v) ==
    [variant |-> v,
     nodes |-> <<[createNode(v) EXCEPT !.pos = 1, !.role = "up"],
                 [createNode(v) EXCEPT !.pos = 2, !.role = "down"]>>,
     tlink |-> [j \in Targets |-> NoLink],
     fixing |-> FALSE, op |-> "init", ops |-> 0, threw |-> FALSE, depth |-> 0, created |-> 0,
     repl |-> <<>>]

RecreateIdle == graph = NewGraph("part_002")

\* the Cancel Workflow button at rest
CancelIdle == cancel = [pending |-> 0, done |-> <<>>, toasts |-> <<>>, rejected |-> FALSE]

TruncIdle == trunc = <<>>
FmtIdle == fmt = <<>>
BatchIdle == batch = [variant |-> "part_010", kind |-> "mbBatchInput", flag |-> FALSE, ops |-> 0,
                      loading |-> <<>>, nodes |-> <<>>, timers |-> <<>>]
PickerIdle == picker = [orig |-> "", img |-> "", sessions |-> <<>>, changed |-> FALSE, stray |-> FALSE]
ViewerIdle == viewer = [kind |-> "mbImageShow", widgets |-> <<>>, image |-> 0, loads |-> <<>>]

NoEvent == [event |-> "none", this |-> "none", args |-> 0, wrappers |-> 0,
            calls |-> <<>>, ret |-> Undefined]

HooksIdle ==
    /\ hookCount = [e \in HookEvents |-> 0]
    /\ hookOrig = {}
    /\ hookFired = NoEvent

Event(op, index, peer, st) ==
    [op |-> op, index |-> index, ptype |-> IF peer = NoLink THEN Untyped ELSE PeerType(peer),
     absent |-> st.absent, log |-> st.log]

Init ==
    /\ kind \in Kinds
    /\ \E converted \in BOOLEAN : inputs = InitInputs(kind, converted)
    /\ outType = InitDynType(kind)
    /\ sel = InitSelect(kind)
    /\ ev = [op |-> "init", index |-> 0, ptype |-> Untyped, absent |-> Complete,
             log |-> NoLog]
    /\ pre = Snapshot
    /\ HooksIdle
    /\ CodeIdle
    /\ RecreateIdle
    /\ CancelIdle
    /\ TruncIdle /\ FmtIdle /\ BatchIdle /\ PickerIdle /\ ViewerIdle

(***************************************************************************)
(* Host operations that raise the callback.                                *)
(***************************************************************************)
Cur == NodeState(inputs, outType, sel)

LinkedPeers == {inputs[i].link : i \in 1..Len(inputs)} \ {NoLink}

Commit(op, index, peer, result) ==
    \E st \in {result} :
    /\ inputs' = st.inputs
    /\ outType' = st.outType
    /\ sel' = st.sel
    /\ ev' = Event(op, index, peer, st)
    /\ pre' = Snapshot
    /\ UNCHANGED <<kind, others>>

\* LGraphNode.connect onto a free input: the link is stored, then the callback runs
Connect(slot, p) ==
    /\ slot \in 1..Len(inputs)
    /\ inputs[slot].link = NoLink
    /\ p \in Peers \ LinkedPeers
    /\ Len(DynIdx(inputs)) < MaxDyn
    /\ LET st0 == [Cur EXCEPT !.inputs[slot].link = p]
       IN Commit("connect", slot, p,
                 onConnectionsChange(kind, st0, 1, slot, TRUE, p, "connect"))

\* LGraphNode.connect onto a linked input: the host first calls disconnectInput
\* (callback with connected = false, raised from inside connect), then stores the
\* new link in inputs[slot] and raises the callback with connected = true; when
\* the slot is gone by then the connection is not made
Replace(slot, p) ==
    /\ slot \in 1..Len(inputs)
    /\ inputs[slot].link # NoLink
    /\ p \in Peers \ LinkedPeers
    /\ LET old == inputs[slot].link
           st0 == [Cur EXCEPT !.inputs[slot].link = NoLink]
           st1 == onConnectionsChange(kind, st0, 1, slot, FALSE, old, "connect")
       IN IF slot \in 1..Len(st1.inputs)
          THEN Commit("replace", slot, p,
                      onConnectionsChange(kind, [st1 EXCEPT !.inputs[slot].link = p],
                                          1, slot, TRUE, p, "connect"))
          ELSE Commit("replaceLost", slot, p, st1)

\* the user drags a link off an input: the link is cleared, then the callback runs
Disconnect(slot) ==
    /\ slot \in 1..Len(inputs)
    /\ inputs[slot].link # NoLink
    /\ LET old == inputs[slot].link
           st0 == [Cur EXCEPT !.inputs[slot].link = NoLink]
       IN Commit("disconnect", slot, old,
                 onConnectionsChange(kind, st0, 1, slot, FALSE, old, "user"))

\* a link is dropped while the host loads a graph ('loadGraphData' on the stack)
LoadDisconnect(slot) ==
    /\ slot \in 1..Len(inputs)
    /\ inputs[slot].link # NoLink
    /\ LET old == inputs[slot].link
           st0 == [Cur EXCEPT !.inputs[slot].link = NoLink]
       IN Commit("loadDisconnect", slot, old,
                 onConnectionsChange(kind, st0, 1, slot, FALSE, old, "load"))

\* configure() raises the callback with connected = true for every input, with the
\* input's link as link_info: here for a linked input
Replay(slot) ==
    /\ slot \in 1..Len(inputs)
    /\ inputs[slot].link # NoLink
    /\ Commit("replay", 0, NoLink,
              onConnectionsChange(kind, Cur, 1, slot, TRUE, inputs[slot].link, "load"))

\* ... and for a free input, where link_info is undefined
ReplayFree ==
    /\ \E slot \in 1..Len(inputs) : inputs[slot].link = NoLink
    /\ LET slot == CHOOSE i \in 1..Len(inputs) : inputs[i].link = NoLink
       IN Commit("replayFree", 0, NoLink,
                 onConnectionsChange(kind, Cur, 1, slot, TRUE, NoLink, "load"))

\* a link from output 0 to a peer's input is made or dropped (type == 2)
OutputChange(connected, p) ==
    /\ p \in Peers
    /\ Commit(IF connected THEN "outConnect" ELSE "outDisconnect", 0,
              IF connected THEN p ELSE NoLink,
              onConnectionsChange(kind, Cur, 2, 1, connected, p, "connect"))

\* the user edits the selector; the host keeps the value inside options.min..max
SetSelect(v) ==
    /\ HasSelectWidget(kind)
    /\ v \in sel.min..sel.max
    /\ v # sel.value
    /\ Commit("setSelect", 0, NoLink, [Cur EXCEPT !.sel.value = v])

Next ==
    \/ \E slot \in 1..Len(inputs), p \in Peers : Connect(slot, p)
    \/ \E slot \in 1..Len(inputs), p \in Peers : Replace(slot, p)
    \/ \E slot \in 1..Len(inputs) : Disconnect(slot)
    \/ \E slot \in 1..Len(inputs) : LoadDisconnect(slot)
    \/ \E slot \in 1..Len(inputs) : Replay(slot)
    \/ ReplayFree
    \/ \E c \in BOOLEAN, p \in Peers : OutputChange(c, p)
    \/ \E v \in 0..InitSelMax : SetSelect(v)

Spec == Init /\ [][Next]_vars

\* the node kinds served by src/js/common.js alone, and by src/js/mockba.js alone
InitCommon ==
    /\ Init
    /\ kind \in CommonKinds

InitMockba ==
    /\ Init
    /\ kind \in MockbaKinds

SpecCommon == InitCommon /\ [][Next]_vars

SpecMockba == InitMockba /\ [][Next]_vars

(***************************************************************************)
(* The callback called once with arbitrary arguments on a node that may    *)
(* lack a structure: either direction, any slot index up to one past the   *)
(* end of this.inputs, with or without link_info.  As in every host event, *)
(* the input named by a disconnect event holds no link when the callback   *)
(* runs.  The node is brought into its state by connections and user       *)
(* disconnections; the run ends with the arbitrary call.                   *)
(***************************************************************************)
RawOps == {"rawConnect", "rawDisconnect", "rawOutConnect", "rawOutDisconnect"}

RawOp(type, connected) ==
    CASE type = 1 /\ connected -> "rawConnect"
      [] type = 1 /\ ~connected -> "rawDisconnect"
      [] type = 2 /\ connected -> "rawOutConnect"
      [] OTHER -> "rawOutDisconnect"

\* link_info of an arbitrary call: none, or a link to one of these peers
RawPeers == {1, 2, 3}

RawEvent(type, index, connected, li, a) ==
    /\ ev.op \notin RawOps
    /\ index \in 1..(IF type = 1 THEN Len(inputs) + 1 ELSE 2)
    /\ (type = 1 /\ ~connected /\ index <= Len(inputs)) => inputs[index].link = NoLink
    /\ Commit(RawOp(type, connected), index, li,
              onConnectionsChange(kind, [Cur EXCEPT !.absent = a], type, index, connected,
                                  li, IF connected THEN "connect" ELSE "user"))

NextRaw ==
    \/ \E slot \in 1..Len(inputs), p \in Peers : ev.op \notin RawOps /\ Connect(slot, p)
    \/ \E slot \in 1..Len(inputs) : ev.op \notin RawOps /\ Disconnect(slot)
    \/ \E type \in {1, 2}, index \in 1..(MaxDyn + 2), connected \in BOOLEAN,
          li \in {NoLink} \cup RawPeers, a \in Absent \cup {Complete} :
            RawEvent(type, index, connected, li, a)

SpecRaw == Init /\ [][NextRaw]_vars

(***************************************************************************)
(* The lifecycle hooks of one node type: wrappers are installed while the  *)
(* extension registers, the host raises the events on nodes.               *)
(***************************************************************************)
\* the socket model at rest
SocketIdle ==
    /\ kind = "mbSelect"
    /\ inputs = InitInputs(kind, FALSE)
    /\ outType = InitDynType(kind)
    /\ sel = InitSelect(kind)
    /\ ev = [op |-> "init", index |-> 0, ptype |-> Untyped, absent |-> Complete,
             log |-> NoLog]
    /\ pre = Snapshot

socketVars == <<kind, inputs, outType, sel, ev, pre>>

InitHooks ==
    /\ SocketIdle
    /\ CodeIdle
    /\ RecreateIdle
    /\ CancelIdle
    /\ TruncIdle /\ FmtIdle /\ BatchIdle /\ PickerIdle /\ ViewerIdle
    /\ hookCount = [e \in HookEvents |-> 0]
    /\ hookOrig \in SUBSET HookEvents
    /\ hookFired = NoEvent

\* nodeType.prototype[e] = function () { ... }: one more wrapper over event e
InstallHook(e) ==
    /\ hookCount[e] < MaxHooks
    /\ hookCount' = [hookCount EXCEPT ![e] = @ + 1]
    /\ UNCHANGED <<hookOrig, hookFired, socketVars, code, graph, cancel, later>>

\* the host calls node[e](...args) on node t
RaiseEvent(e, t, a) ==
    /\ hookFired' = [event |-> e, this |-> t, args |-> a, wrappers |-> hookCount[e],
                     calls |-> HookCalls(e, hookCount[e], t, a, hookOrig),
                     ret |-> HookResult(e, hookCount[e], hookOrig)]
    /\ UNCHANGED <<hookCount, hookOrig, socketVars, code, graph, cancel, later>>

NextHooks ==
    \/ \E e \in HookEvents : InstallHook(e)
    \/ \E e \in HookEvents, t \in {"node1", "node2"}, a \in {1, 2} : RaiseEvent(e, t, a)

SpecHooks == InitHooks /\ [][NextHooks]_vars

(***************************************************************************)
(* The code widget of one mbExec / mbEval / mb Exec node: the user types,  *)
(* presses the toggle button, the host serializes the node and loads it    *)
(* again, and the timer set at creation runs its check.                    *)
(***************************************************************************)
InitCode ==
    /\ SocketIdle
    /\ HooksIdle
    /\ CodeIdle
    /\ RecreateIdle
    /\ CancelIdle
    /\ TruncIdle /\ FmtIdle /\ BatchIdle /\ PickerIdle /\ ViewerIdle

\* the user types text c into the visible widget
EditCode(c) ==
    /\ code.w.type = "customtext"
    /\ c # code.w.value
    /\ code' = [code EXCEPT !.w.value = c, !.tracked = FALSE, !.op = "edit",
                            !.sinceLoad = FALSE]
    /\ UNCHANGED <<socketVars, hookVars, graph, cancel, later>>

\* the callback of the toggle button
ToggleCode ==
    /\ IF code.w.type = "hidden"
       THEN code' = [code EXCEPT !.w.type = "customtext",
                                 !.w.value = removeHiddenMarker(@),
                                 !.w.toggle = "Hide Code",
                                 !.op = "show", !.sinceLoad = FALSE]
       ELSE code' = [code EXCEPT !.w.type = "hidden",
                                 !.w.value = addHiddenMarker(@),
                                 !.w.toggle = "Show Code",
                                 !.orig = code.w.value, !.tracked = TRUE,
                                 !.op = "hide", !.sinceLoad = FALSE]
    /\ UNCHANGED <<socketVars, hookVars, graph, cancel, later>>

\* the function given to setTimeout(..., 100) at creation
DeferredCheck ==
    /\ code.w.pending
    /\ IF isCodeHidden(code.w.value)
       THEN code' = [code EXCEPT !.w.pending = FALSE, !.w.type = "hidden",
                                 !.w.toggle = "Show Code", !.op = "check"]
       ELSE code' = [code EXCEPT !.w.pending = FALSE, !.op = "check"]
    /\ UNCHANGED <<socketVars, hookVars, graph, cancel, later>>

\* the host serializes the node and configures a newly created node from the
\* data (clone, or save and reopen): widgets_values[codeIndex] holds the value
ReloadNode ==
    /\ code' = [code EXCEPT !.w = NewCodeWidget(code.w.value), !.op = "load",
                            !.sinceLoad = TRUE,
                            !.loadedHidden = (code.w.type = "hidden")]
    /\ UNCHANGED <<socketVars, hookVars, graph, cancel, later>>

NextCode ==
    \/ \E c \in Texts : EditCode(c)
    \/ ToggleCode
    \/ DeferredCheck
    \/ ReloadNode

SpecCode == InitCode /\ [][NextCode]_vars

(***************************************************************************)
(* Destroy and recreate (part_002 430-443, part_009 974-985). The graph    *)
(* holds dynamic nodes of one class, the plain origin nodes 1..NPeers and  *)
(* the inputs of plain target nodes. A dynamic node is                     *)
(* [status, title, pos, role, inputs]; its id is NPeers + its place in     *)
(* graph.nodes; an input's link is the id of the origin node; tlink[j] is  *)
(* the id of the dynamic node whose output feeds target input j.           *)
(*   fixing : the module flag of part_009                                  *)
(*   op     : the last user operation                                      *)
(*   ops    : how many user operations the graph has seen                  *)
(*   threw  : the operation ended with an exception                        *)
(*   depth  : replacements in progress                                     *)
(*   created: nodes created during the operation                           *)
(*   repl   : the replacements completed during the operation              *)
(* Host behaviour (LiteGraph connect, disconnectInput, removeInput,        *)
(* disconnectOutput, LGraph.remove) is written as the host runs it: each   *)
(* raises the callback synchronously, so a callback runs inside another.   *)
(* The stack is the set of host function names a stack trace would show.   *)
(***************************************************************************)
IsDynId(id) == id > NPeers

GNode(w, id) == w.nodes[id - NPeers]

SetInputs(w, id, ins) == [w EXCEPT !.nodes[id - NPeers].inputs = ins]

InGraph(w, id) == ~IsDynId(id) \/ GNode(w, id).status = "live"

\* an exception leaves the callback and every host function under it
GThrow(w) == [w EXCEPT !.threw = TRUE]

\* the links held by the output of node n: [node, slot] of a dynamic node's input,
\* [node |-> 0, slot |-> j] for target input j
OutputLinkSet(w, n) ==
    UNION {{[node |-> NPeers + k, slot |-> i] :
                i \in {j \in 1..Len(w.nodes[k].inputs) : w.nodes[k].inputs[j].link = n}} :
           k \in 1..Len(w.nodes)}
    \cup {[node |-> 0, slot |-> j] : j \in {t \in Targets : w.tlink[t] = n}}

\* a set of links as the list a loop over output.links walks: the links to
\* dynamic nodes by node and slot, then the links to target inputs
RECURSIVE SeqOfRefs(_, _)
SeqOfRefs(w, S) ==
    LET key(r) == IF r.node = 0 THEN (Len(w.nodes) + NPeers + 1) * (MaxSlots + 2) + r.slot
                  ELSE r.node * (MaxSlots + 2) + r.slot
    IN IF S = {} THEN <<>>
       ELSE LET m == CHOOSE x \in S : \A y \in S : key(x) <= key(y)
            IN <<m>> \o SeqOfRefs(w, S \ {m})

\* output.links of node n as a list
OutputLinks(w, n) == SeqOfRefs(w, OutputLinkSet(w, n))

\* the links on the inputs of node n: <<name of the input, origin>>
InputLinkSet(w, n) ==
    LET ins == GNode(w, n).inputs
    IN {<<ins[i].name, ins[i].link>> : i \in {j \in 1..Len(ins) : ins[j].link # NoLink}}

\* whether a stack trace shows none of the names the trim step looks for
TrimAllowed(stack) == stack \cap {"connect", "loadGraphData"} = {}

RECURSIVE GHandler(_, _, _, _, _, _)
RECURSIVE GDisconnectInput(_, _, _, _)
RECURSIVE GRemoveInput(_, _, _, _)
RECURSIVE GConnect(_, _, _, _, _)
RECURSIVE GConnectTarget(_, _, _, _)
RECURSIVE GRemoveInputLinks(_, _, _, _)
RECURSIVE GDisconnectOutput(_, _, _, _, _)
RECURSIVE GRemove(_, _, _)
RECURSIVE CopyInputs(_, _, _, _, _)
RECURSIVE CopyOutputs(_, _, _, _, _)
RECURSIVE node_info_copy(_, _, _, _)
RECURSIVE Recreate(_, _, _)

\* node.disconnectInput(slot): the link is cleared, the callback of the node runs
\* (INPUT, connected = false), then the callback of the origin (OUTPUT); a node
\* that left the graph has no graph to look the link up in, an origin that left
\* the graph ends the call without events
GDisconnectInput(w, t, slot, stack) ==
    IF w.threw \/ slot \notin 1..Len(GNode(w, t).inputs) THEN w
    ELSE LET o == GNode(w, t).inputs[slot].link
             w1 == [w EXCEPT !.nodes[t - NPeers].inputs[slot].link = NoLink]
         IN IF o = NoLink THEN w
            ELSE IF GNode(w, t).status # "live" THEN GThrow(w1)
            ELSE IF ~InGraph(w, o) THEN w1
            ELSE IF IsDynId(o)
            THEN GHandler(GHandler(w1, t, 1, slot, FALSE, stack), o, 2, 1, FALSE, stack)
            ELSE GHandler(w1, t, 1, slot, FALSE, stack)

\* node.removeInput(slot): disconnectInput(slot), then the slot is spliced out
GRemoveInput(w, t, slot, stack) ==
    LET Splice(w1) ==
            IF w1.threw \/ slot \notin 1..Len(GNode(w1, t).inputs) THEN w1
            ELSE SetInputs(w1, t, RemoveAt(GNode(w1, t).inputs, slot))
    IN Splice(GDisconnectInput(w, t, slot, stack \cup {"remove"}))

\* origin.connect(output, t, slot): a linked input is disconnected first, then the
\* link is stored in t.inputs[slot] and the callbacks run (origin, then target)
GConnect(w, o, t, slot, stack) ==
    IF w.threw \/ slot \notin 1..Len(GNode(w, t).inputs) \/ ~InGraph(w, o) THEN w
    ELSE LET Store(w1) ==
                 IF w1.threw THEN w1
                 ELSE IF slot \notin 1..Len(GNode(w1, t).inputs) THEN GThrow(w1)
                 ELSE LET w2 == [w1 EXCEPT !.nodes[t - NPeers].inputs[slot].link = o]
                      IN IF IsDynId(o)
                         THEN GHandler(GHandler(w2, o, 2, 1, TRUE, stack \cup {"connect"}),
                                       t, 1, slot, TRUE, stack \cup {"connect"})
                         ELSE GHandler(w2, t, 1, slot, TRUE, stack \cup {"connect"})
         IN Store(GDisconnectInput(w, t, slot, stack \cup {"connect"}))

\* o.connect(output, target node, j) onto the input j of a plain target node
GConnectTarget(w, o, j, stack) ==
    IF w.threw \/ ~InGraph(w, o) THEN w
    ELSE LET q == w.tlink[j]
             w1 == [w EXCEPT !.tlink[j] = NoLink]
             Store(w2) ==
                 IF w2.threw THEN w2
                 ELSE GHandler([w2 EXCEPT !.tlink[j] = o], o, 2, 1, TRUE,
                               stack \cup {"connect"})
         IN Store(IF q # NoLink /\ InGraph(w, q)
                  THEN GHandler(w1, q, 2, 1, FALSE, stack \cup {"connect"})
                  ELSE w1)

\* LGraph.remove, first loop: for (i = 0; i < node.inputs.length; i++) a linked
\* input is disconnected; the list can shrink while the loop runs
GRemoveInputLinks(w, n, i, stack) ==
    IF w.threw \/ i > Len(GNode(w, n).inputs) THEN w
    ELSE GRemoveInputLinks(GDisconnectInput(w, n, i, stack), n, i + 1, stack)

\* node.disconnectOutput(0): for each link the output held when the call began and
\* still holds, the target input is cleared and the callbacks run (target, then n)
GDisconnectOutput(w, n, refs, k, stack) ==
    IF w.threw \/ k > Len(refs) THEN w
    ELSE LET r == refs[k]
             t == r.node
             w1 == IF t = 0 THEN [w EXCEPT !.tlink[r.slot] = NoLink]
                   ELSE [w EXCEPT !.nodes[t - NPeers].inputs[r.slot].link = NoLink]
             w3 == IF t = 0 THEN GHandler(w1, n, 2, 1, FALSE, stack)
                   ELSE IF ~InGraph(w, t) THEN w1
                   ELSE GHandler(GHandler(w1, t, 1, r.slot, FALSE, stack),
                                 n, 2, 1, FALSE, stack)
         IN IF r \in OutputLinkSet(w, n)
            THEN GDisconnectOutput(w3, n, refs, k + 1, stack)
            ELSE GDisconnectOutput(w, n, refs, k + 1, stack)

\* app.canvas.graph.remove(node): nothing for a node that is not in the graph;
\* else its inputs and its output are disconnected and it leaves the graph
GRemove(w, n, stack) ==
    IF w.threw \/ GNode(w, n).status # "live" THEN w
    ELSE LET Leave(w2) ==
                 IF w2.threw THEN w2 ELSE [w2 EXCEPT !.nodes[n - NPeers].status = "removed"]
             Outputs(w1) ==
                 Leave(GDisconnectOutput(w1, n, OutputLinks(w1, n), 1, stack \cup {"remove"}))
         IN Outputs(GRemoveInputLinks(w, n, 1, stack \cup {"remove"}))

\* node_info_copy, first loop: src_node.connect(link.origin_slot, dest.id, input.name)
\* for every linked input of src; connect finds the input of dest by its name
CopyInputs(w, src, dest, i, stack) ==
    IF w.threw \/ i > Len(GNode(w, src).inputs) THEN w
    ELSE LET input == GNode(w, src).inputs[i]
             dins == GNode(w, dest).inputs
             found == {j \in 1..Len(dins) : dins[j].name = input.name}
             w1 == IF input.link = NoLink THEN w
                   ELSE IF ~InGraph(w, input.link) THEN GThrow(w)
                   ELSE IF found = {} \/ ~InGraph(w, dest) THEN w
                   ELSE GConnect(w, input.link, dest,
                                 CHOOSE j \in found : \A j2 \in found : j <= j2, stack)
         IN CopyInputs(w1, src, dest, i + 1, stack)

\* node_info_copy, second loop: dest.connect(i, target_node, link.target_slot) for
\* every link the output of src held; connect throws when the target node is null
CopyOutputs(w, dest, links, k, stack) ==
    IF w.threw \/ k > Len(links) THEN w
    ELSE LET r == links[k]
             w1 == IF r.node = 0 THEN GConnectTarget(w, dest, r.slot, stack)
                   ELSE IF ~InGraph(w, r.node) THEN GThrow(w)
                   ELSE GConnect(w, dest, r.node, r.slot, stack)
         IN CopyOutputs(w1, dest, links, k + 1, stack)

\* node_info_copy(src, dest, true)
node_info_copy(w, src, dest, stack) ==
    LET Outputs(w1) ==
            IF w1.threw THEN w1
            ELSE CopyOutputs(w1, dest, OutputLinks(w1, src), 1, stack)
    IN Outputs(CopyInputs(w, src, dest, 1, stack))

\* what one completed replacement did
\*   copiedIn : every input link of the old node is on the same-named input of the new
\*   copiedOut: every output link of the old node now comes from the new node
\*   oldGone  : the old node is not in the graph
\*   samePos  : the new node is where the old one was
\*   nested   : the replacement began while another one was in progress
\*   made     : nodes created from its beginning to its end
\*   gone     : how many nodes left the graph from its beginning to its end
Replacement(w0, w, n, new) ==
    [copiedIn |-> \A l \in InputLinkSet(w0, n) : l \in InputLinkSet(w, new),
     copiedOut |-> \A r \in OutputLinkSet(w0, n) :
                      /\ r \in OutputLinkSet(w, new)
                      /\ r.node # 0 => InGraph(w, r.node),
     oldGone |-> ~InGraph(w, n),
     samePos |-> GNode(w, new).pos = GNode(w0, n).pos,
     nested |-> w0.depth > 0,
     made |-> w.created - w0.created,
     gone |-> Cardinality({j \in 1..Len(w0.nodes) :
                   w0.nodes[j].status = "live" /\ w.nodes[j].status # "live"})]

\* part_002 437-438 this.title = "dead"; part_009 977 fixing = true
TakeGuard(w, n) ==
    IF w.variant = "part_002" THEN [w EXCEPT !.nodes[n - NPeers].title = "dead"]
    ELSE [w EXCEPT !.fixing = TRUE]

\* part_002 440 new_node.title = prevTitle; part_009 983 fixing = false
ReleaseGuard(w, new, prevTitle) ==
    IF w.variant = "part_002" THEN [w EXCEPT !.nodes[new - NPeers].title = prevTitle]
    ELSE [w EXCEPT !.fixing = FALSE]

\* whether the guard lets node n be replaced (part_002 432, part_009 976)
GuardOpen(w, n, stack) ==
    IF w.variant = "part_002" THEN GNode(w, n).title # "dead"
    ELSE ~w.fixing /\ "remove" \notin stack

\* the replacement block: createNode, pos, graph.add, guard, node_info_copy,
\* graph.remove(this); the release of the guard between or after them
Recreate(w, n, stack) ==
    LET new == NPeers + Len(w.nodes) + 1
        old == GNode(w, n)
        fresh == [createNode(w.variant) EXCEPT !.pos = old.pos, !.role = old.role]
        w1 == [w EXCEPT !.nodes = Append(@, fresh), !.created = @ + 1, !.depth = @ + 1]
        Done(w4) ==
            IF w4.threw THEN w4
            ELSE LET w5 == IF w.variant = "part_002" THEN w4
                           ELSE ReleaseGuard(w4, new, old.title)
                 IN [w5 EXCEPT !.depth = @ - 1,
                               !.repl = Append(@, Replacement(w, w5, n, new))]
        Copied(w2) ==
            IF w2.threw THEN w2
            ELSE Done(GRemove(IF w.variant = "part_002"
                              THEN ReleaseGuard(w2, new, old.title) ELSE w2, n, stack))
    IN Copied(node_info_copy(TakeGuard(w1, n), n, new, stack))

\* part_002 343-444 on an mbImageBatch node: no 'select' or 'code' input
P2Handler(w, n, type, index, connected, stack) ==
    LET ins == GNode(w, n).inputs
        trims == ~connected /\ Len(ins) > 1 /\ TrimAllowed(stack)
    IN IF (type = 1 \/ trims) /\ index \notin 1..Len(ins) THEN GThrow(w)
       ELSE LET Rest(w1) ==
                    LET pfx == input_name(VariantClass(w.variant))
                        ins1 == RenameDynamic(GNode(w1, n).inputs, pfx)
                        ins2 == IF ins1[Len(ins1)].link # NoLink
                                THEN Append(ins1, [name |-> DynName(pfx, Len(ins1) + 1),
                                                   type |-> VariantType(w.variant),
                                                   link |-> NoLink])
                                ELSE ins1
                    IN IF w1.threw THEN w1
                       ELSE IF ins1 = <<>> THEN GThrow(w1)
                       ELSE IF ~connected /\ GuardOpen(w1, n, stack)
                       THEN Recreate(SetInputs(w1, n, ins2), n, stack)
                       ELSE SetInputs(w1, n, ins2)
            IN Rest(IF trims THEN GRemoveInput(w, n, index, stack) ELSE w)

\* part_009 863-986 on an 'mb Exec' node: the steps of the callback of mockba.js,
\* then the replacement block
P9Handler(w, n, type, index, connected, stack) ==
    LET k == VariantClass(w.variant)
        st == MockbaHandler(k, NodeState(GNode(w, n).inputs, Untyped, InitSelect(k)),
                            type, index, connected, 1,
                            IF TrimAllowed(stack) THEN "user" ELSE "connect")
        w1 == SetInputs(w, n, st.inputs)
    IN IF type # 1 THEN w
       ELSE IF st.log.threw THEN GThrow(w1)
       ELSE IF GuardOpen(w1, n, stack) THEN Recreate(w1, n, stack)
       ELSE w1

\* node.onConnectionsChange(type, index, connected, link_info)
GHandler(w, n, type, index, connected, stack) ==
    IF w.threw THEN w
    ELSE IF w.variant = "part_002" THEN P2Handler(w, n, type, index, connected, stack)
    ELSE P9Handler(w, n, type, index, connected, stack)

\* a node that left the graph stays in graph.nodes only while a link between it
\* and a dynamic node is left; the ids of the others are renumbered, the code
\* never compares ids
Settle(w) ==
    LET kept == {k \in 1..Len(w.nodes) :
                    \/ w.nodes[k].status = "live"
                    \/ \E i \in 1..Len(w.nodes[k].inputs) :
                           IsDynId(w.nodes[k].inputs[i].link)
                    \/ OutputLinkSet(w, NPeers + k) # {}}
        NewId(id) == IF ~IsDynId(id) THEN id
                     ELSE NPeers + Cardinality({k \in kept : k <= id - NPeers})
        nth(m) == CHOOSE k \in kept : Cardinality({k2 \in kept : k2 <= k}) = m
        relink(nd) == [nd EXCEPT !.inputs = [i \in 1..Len(nd.inputs) |->
                                    [nd.inputs[i] EXCEPT !.link =
                                        IF nd.status = "live" \/ IsDynId(@)
                                        THEN NewId(@) ELSE NoLink]]]
    IN [w EXCEPT !.nodes = [m \in 1..Cardinality(kept) |-> relink(w.nodes[nth(m)])],
                 !.tlink = [j \in Targets |-> NewId(w.tlink[j])],
                 !.depth = 0]

\* the state a user operation starts from
Begin(op) == [graph EXCEPT !.op = op, !.ops = @ + 1, !.threw = FALSE, !.depth = 0, !.created = 0,
                           !.repl = <<>>]

LiveIds == {NPeers + k : k \in {j \in 1..Len(graph.nodes) : graph.nodes[j].status = "live"}}

\* <<o, t>>: the output of o is linked to an input of dynamic node t
Linked ==
    UNION {{<<GNode(graph, t).inputs[i].link, t>> : i \in 1..Len(GNode(graph, t).inputs)} :
           t \in LiveIds}

\* the user drops a link from plain node p onto input slot of node t (free or linked)
UConnect(p, t, slot) ==
    /\ graph.ops < MaxOps
    /\ t \in LiveIds
    /\ slot \in 1..Len(GNode(graph, t).inputs)
    /\ GNode(graph, t).inputs[slot].link # p
    /\ GNode(graph, t).inputs[slot].link = NoLink => <<p, t>> \notin Linked
    /\ graph' = Settle(GConnect(Begin("connect"), p, t, slot, {}))
    /\ UNCHANGED <<socketVars, hookVars, code, cancel, later>>

\* the user links the output of dynamic node a to an input of dynamic node b
ULink(a, b, slot) ==
    /\ graph.ops < MaxOps
    /\ a \in LiveIds /\ GNode(graph, a).role = "up"
    /\ b \in LiveIds /\ GNode(graph, b).role = "down"
    /\ slot \in 1..Len(GNode(graph, b).inputs)
    /\ <<a, b>> \notin Linked
    /\ graph' = Settle(GConnect(Begin("link"), a, b, slot, {}))
    /\ UNCHANGED <<socketVars, hookVars, code, cancel, later>>

\* the user links the output of dynamic node o to the input of a plain target node
UConnectTarget(o, j) ==
    /\ graph.ops < MaxOps
    /\ o \in LiveIds
    /\ graph.tlink[j] # o
    /\ graph' = Settle(GConnectTarget(Begin("connectTarget"), o, j, {}))
    /\ UNCHANGED <<socketVars, hookVars, code, cancel, later>>

\* the user drags the link off input slot of node t
UDisconnect(t, slot) ==
    /\ graph.ops < MaxOps
    /\ t \in LiveIds
    /\ slot \in 1..Len(GNode(graph, t).inputs)
    /\ GNode(graph, t).inputs[slot].link # NoLink
    /\ graph' = Settle(GDisconnectInput(Begin("disconnect"), t, slot, {}))
    /\ UNCHANGED <<socketVars, hookVars, code, cancel, later>>

\* the user drags the link off the input of a plain target node
UDisconnectTarget(j) ==
    /\ graph.ops < MaxOps
    /\ graph.tlink[j] # NoLink
    /\ InGraph(graph, graph.tlink[j])
    /\ graph' = Settle(GHandler([Begin("disconnectTarget") EXCEPT !.tlink[j] = NoLink],
                                graph.tlink[j], 2, 1, FALSE, {}))
    /\ UNCHANGED <<socketVars, hookVars, code, cancel, later>>

InitRecreate ==
    /\ SocketIdle
    /\ HooksIdle
    /\ CodeIdle
    /\ CancelIdle
    /\ TruncIdle /\ FmtIdle /\ BatchIdle /\ PickerIdle /\ ViewerIdle
    /\ graph \in {NewGraph(v) : v \in Variants}

NextRecreate ==
    \/ \E p \in Origins, t \in LiveIds, slot \in 1..MaxSlots : UConnect(p, t, slot)
    \/ \E a \in LiveIds, b \in LiveIds, slot \in 1..MaxSlots : ULink(a, b, slot)
    \/ \E o \in LiveIds, j \in Targets : UConnectTarget(o, j)
    \/ \E t \in LiveIds, slot \in 1..MaxSlots : UDisconnect(t, slot)
    \/ \E j \in Targets : UDisconnectTarget(j)

SpecRecreate == InitRecreate /\ [][NextRecreate]_vars

(***************************************************************************)
(* The 'Cancel Workflow' button of mbSubmit (common.js 253-281): an async  *)
(* callback that awaits fetch('/api/interrupt') and adds a toast.          *)
(*   pending : callbacks waiting for their request                         *)
(*   done    : how the requests of the finished callbacks ended            *)
(*   toasts  : the toasts added so far                                     *)
(*   rejected: a callback's promise was rejected                           *)
(***************************************************************************)
\* fetch resolves with response.ok, resolves with a non-ok response, or rejects
Outcomes == {"ok", "notOk", "failed"}

\* (mutant) the catch branch adds no toast
CancelToastsSilentCatch(outcome) ==
    CASE outcome = "ok" -> <<[severity |-> "info", detail |-> "Workflow cancellation sent"]>>
      [] outcome = "notOk" ->
             <<[severity |-> "error", detail |-> "Workflow cancellation failed"]>>
      [] OTHER -> <<>>

\* the toasts one run of the callback adds: try branch (ok / not ok), catch branch
CancelToasts(outcome) ==
    CASE outcome = "ok" -> <<[severity |-> "info", detail |-> "Workflow cancellation sent"]>>
      [] outcome = "notOk" ->
             <<[severity |-> "error", detail |-> "Workflow cancellation failed"]>>
      [] OTHER -> <<[severity |-> "error",
                     detail |-> "Workflow cancellation request failed"]>>

\* whether the awaited failure leaves the callback: the catch block takes every one
CancelRejects(outcome) == FALSE

\* the user presses the button: the callback starts and waits at await fetch(...)
PressCancel ==
    /\ cancel.pending + Len(cancel.done) < MaxPresses
    /\ cancel' = [cancel EXCEPT !.pending = @ + 1]
    /\ UNCHANGED <<socketVars, hookVars, code, graph, later>>

\* a request ends and its callback runs to its end
SettleCancel(outcome) ==
    /\ cancel.pending > 0
    /\ cancel' = [cancel EXCEPT !.pending = @ - 1,
                                !.done = Append(@, outcome),
                                !.toasts = @ \o CancelToasts(outcome),
                                !.rejected = @ \/ CancelRejects(outcome)]
    /\ UNCHANGED <<socketVars, hookVars, code, graph, later>>

InitCancel ==
    /\ SocketIdle
    /\ HooksIdle
    /\ CodeIdle
    /\ RecreateIdle
    /\ CancelIdle
    /\ TruncIdle /\ FmtIdle /\ BatchIdle /\ PickerIdle /\ ViewerIdle

NextCancel ==
    \/ PressCancel
    \/ \E outcome \in Outcomes : SettleCancel(outcome)

SpecCancel == InitCancel /\ [][NextCancel]_vars

(***************************************************************************)
(* Vocabulary of the properties.                                           *)
(***************************************************************************)
Dyn == Dynamics(inputs)

PreDyn == Dynamics(pre.inputs)

Specials(ins) == {ins[i] : i \in {j \in 1..Len(ins) : IsSpecialName(ins[j].name)}}

NumConnected(d) == Cardinality({i \in 1..Len(d) : d[i].link # NoLink})

NumFree(d) == Cardinality({i \in 1..Len(d) : d[i].link = NoLink})

Links(d) == [i \in 1..Len(d) |-> d[i].link]

Names(d) == [i \in 1..Len(d) |-> d[i].name]

\* the last operation raised the callback for the input side with link metadata
InputEvent == ev.op \in {"connect", "replace", "replaceLost", "disconnect",
                         "loadDisconnect", "replay"}

SequentialFrom(d, pfx) == \A i \in 1..Len(d) : d[i].name = DynName(pfx, i)

(***************************************************************************)
(* C1: after every event handled by the synchronizer of common.js, the     *)
(* dynamic slots read in slot order are named <prefix>1 .. <prefix>k, with *)
(* the prefix of the node kind: no gap, no repeat.                         *)
(***************************************************************************)
C1_SequentialNames == SequentialFrom(Dyn, input_name(kind))

\* reached: a user disconnect after which a slot was removed from a list whose
\* special slot sits between the dynamic ones, a connected slot remaining
C1_Witness ==
    /\ IsCommon
    /\ ev.op = "disconnect"
    /\ Len(inputs) < Len(pre.inputs)
    /\ \E i \in 1..Len(inputs) : IsSpecialName(inputs[i].name) /\ 1 < i /\ i < Len(inputs)
    /\ NumConnected(Dyn) >= 1

(***************************************************************************)
(* C2 (as claimed): after every synchronized event exactly one dynamic     *)
(* slot is unconnected.                                                    *)
(***************************************************************************)
C2_ExactlyOneFree == NumFree(Dyn) = 1

(***************************************************************************)
(* C2 (amended): in common.js the last dynamic slot is unconnected, every  *)
(* other unconnected dynamic slot has a connected one after it, and with   *)
(* no connection at all there is exactly one dynamic slot.                 *)
(***************************************************************************)
C2_OneTrailingFree ==
    /\ Len(Dyn) >= 1
    /\ Dyn[Len(Dyn)].link = NoLink
    /\ \A i \in 1..(Len(Dyn) - 1) :
          Dyn[i].link = NoLink => \E j \in (i + 1)..Len(Dyn) : Dyn[j].link # NoLink
    /\ NumConnected(Dyn) = 0 => Len(Dyn) = 1

\* reached: a user disconnect of a slot that has a connected slot after it
C2_Witness ==
    /\ IsCommon
    /\ ev.op = "disconnect"
    /\ NumFree(Dyn) = 2
    /\ Dyn[1].link = NoLink
    /\ Dyn[2].link # NoLink

(***************************************************************************)
(* C3: special slots ('select', 'code') are never renamed and never        *)
(* removed: each one present before an operation is present after it with  *)
(* the same name and type, and none appears.                               *)
(***************************************************************************)
C3_SpecialsKept ==
    /\ \A x \in Specials(pre.inputs) :
          \E y \in Specials(inputs) : y.name = x.name /\ y.type = x.type
    /\ Cardinality(Specials(inputs)) = Cardinality(Specials(pre.inputs))

\* reached: an event whose index is a special slot, and a removal next to one
C3_Witness ==
    /\ ev.op = "disconnect"
    /\ ev.index \in 1..Len(pre.inputs)
    /\ IsSpecialName(pre.inputs[ev.index].name)
    /\ Len(Dyn) >= 2

(***************************************************************************)
(* C5: after every event handled by common.js the number of dynamic slots  *)
(* is max(1, p + 2), p the 0-based position of the last connected dynamic  *)
(* slot (-1 if none).                                                      *)
(***************************************************************************)
C5_DesiredCount == IsCommon => Len(Dyn) = Max(1, LastConnectedPos(inputs) + 2)

\* reached: an interior free slot kept before the last connection
C5_Witness ==
    /\ IsCommon
    /\ InputEvent
    /\ Len(Dyn) = 3
    /\ Dyn[1].link = NoLink
    /\ Dyn[2].link # NoLink
    /\ Dyn[3].link = NoLink

(***************************************************************************)
(* C6: the synchronizer of common.js never removes an input that is        *)
(* connected at the moment of removal.                                     *)
(***************************************************************************)
C6_NoLinkedRemoved == IsCommon => ~ev.log.rmLinked

\* reached: an event in which the synchronizer removed inputs while others
\* (a special one among them) stayed connected
C6_Witness ==
    /\ IsCommon
    /\ ev.op \in {"disconnect", "loadDisconnect"}
    /\ Len(inputs) < Len(pre.inputs)
    /\ \E x \in Specials(inputs) : x.link # NoLink
    /\ NumConnected(Dyn) >= 1

\* the operation before the last one started from an all-connected list with one
\* trailing free slot, and was a user disconnect of a dynamic slot
PreAllConnected ==
    /\ Len(PreDyn) >= 2
    /\ PreDyn[Len(PreDyn)].link = NoLink
    /\ \A i \in 1..(Len(PreDyn) - 1) : PreDyn[i].link # NoLink

\* position among the dynamic slots of global index g of the list ins
PosOf(ins, g) == Cardinality({j \in 1..g : ~IsSpecialName(ins[j].name)})

UserDisconnectOfDynamic ==
    /\ ev.op = "disconnect"
    /\ ev.index \in 1..Len(pre.inputs)
    /\ ~IsSpecialName(pre.inputs[ev.index].name)

\* the disconnected slot is gone: n slots, sequentially named, the old links of
\* the other slots in their old order, one free slot at the end
SlotRemoved(j) ==
    /\ Len(Dyn) = Len(PreDyn) - 1
    /\ SequentialFrom(Dyn, input_name(kind))
    /\ Links(Dyn) = Links(RemoveAt(PreDyn, j))
    /\ Dyn[Len(Dyn)].link = NoLink

\* the disconnected slot stays in place as a free slot
SlotKeptFree(j) ==
    /\ Len(Dyn) = Len(PreDyn)
    /\ Names(Dyn) = Names(PreDyn)
    /\ Links(Dyn) = [Links(PreDyn) EXCEPT ![j] = NoLink]

(***************************************************************************)
(* C7: when the trailing free dynamic slot becomes connected, exactly one  *)
(* unconnected slot <prefix>(k+1) is appended and the k existing dynamic   *)
(* slots keep their names and links; a connection to any other slot adds   *)
(* no slot.                                                                *)
(***************************************************************************)
C7_GrowByOne ==
    /\ ( /\ ev.op = "connect"
         /\ ev.index = LastDynamicIndex(pre.inputs)
         /\ inputs[ev.index].link # NoLink )
       => LET k == Len(PreDyn) IN
          /\ Len(Dyn) = k + 1
          /\ Dyn[k + 1].link = NoLink
          /\ Dyn[k + 1].name = DynName(input_name(kind), k + 1)
          /\ \A i \in 1..k : Dyn[i].name = PreDyn[i].name
          /\ \A i \in 1..(k - 1) : Dyn[i].link = PreDyn[i].link
    /\ ( /\ ev.op \in {"connect", "replace", "replaceLost"}
         /\ ev.index # LastDynamicIndex(pre.inputs) )
       => Len(Dyn) <= Len(PreDyn)

\* reached: the trailing slot of a list that already has a connected slot and a
\* special slot is connected
C7_Witness ==
    /\ ev.op = "connect"
    /\ ev.index = LastDynamicIndex(pre.inputs)
    /\ Len(PreDyn) = 2
    /\ Len(Dyn) = 3
    /\ Specials(inputs) # {}

(***************************************************************************)
(* C8 (as claimed): from <prefix>1..<prefix>n all connected plus a free    *)
(* <prefix>(n+1), a user disconnect of <prefix>j removes that slot.        *)
(***************************************************************************)
C8_DisconnectRemoves ==
    (PreAllConnected /\ UserDisconnectOfDynamic) => SlotRemoved(PosOf(pre.inputs, ev.index))

(***************************************************************************)
(* C8 (amended): the slot is removed by mockba.js for every j and by       *)
(* common.js for j = n; common.js keeps an interior slot (j < n) in place  *)
(* as a free slot, so n + 1 slots remain with their names and other links. *)
(***************************************************************************)
C8_DisconnectRemovesOrDefers ==
    (PreAllConnected /\ UserDisconnectOfDynamic) =>
        LET j == PosOf(pre.inputs, ev.index)
            n == Len(PreDyn) - 1
        IN IF IsMockba \/ j = n THEN SlotRemoved(j) ELSE SlotKeptFree(j)

\* reached: mockba.js removed an interior slot, the later link moved up
C8_Witness ==
    /\ IsMockba
    /\ PreAllConnected
    /\ UserDisconnectOfDynamic
    /\ Len(PreDyn) = 3
    /\ PosOf(pre.inputs, ev.index) = 1
    /\ Dyn[1].link = PreDyn[2].link

(***************************************************************************)
(* C4 (as claimed): for a selector node with N connected dynamic slots the *)
(* range is [1, N] if N >= 1, and [0, 0] with value 0 if N = 0.            *)
(***************************************************************************)
C4_RangeIsCount ==
    (kind = "mbSelect" /\ InputEvent) =>
        IF NumConnected(Dyn) = 0
        THEN sel = [min |-> 0, max |-> 0, value |-> 0]
        ELSE sel.min = 1 /\ sel.max = NumConnected(Dyn)

(***************************************************************************)
(* C4 (amended): for mbSelect in common.js the upper bound also counts the *)
(* free dynamic slots that lie before the last connected one, so it is N   *)
(* only when the connected slots are the first N.                          *)
(***************************************************************************)
C4_RangeCountsGaps ==
    (kind = "mbSelect" /\ InputEvent) =>
        IF NumConnected(Dyn) = 0
        THEN sel = [min |-> 0, max |-> 0, value |-> 0]
        ELSE /\ sel.min = 1
             /\ sel.max = NumConnected(Dyn)
                  + Cardinality({i \in 1..Len(Dyn) :
                        /\ Dyn[i].link = NoLink
                        /\ \E j \in (i + 1)..Len(Dyn) : Dyn[j].link # NoLink})

\* reached: one connected slot behind a free one: N = 1, range [1, 2]
C4_Witness ==
    /\ kind = "mbSelect"
    /\ InputEvent
    /\ NumConnected(Dyn) = 1
    /\ Dyn[1].link = NoLink
    /\ sel.max = 2

Clamp(v, lo, hi) == IF v < lo THEN lo ELSE IF v > hi THEN hi ELSE v

SelectorFollowsLast ==
    LET p == LastConnectedPos(inputs) IN
    IF p = -1
    THEN sel = [min |-> 0, max |-> 0, value |-> 0]
    ELSE /\ sel.min = 1
         /\ sel.max = p + 1
         /\ sel.value \in 1..(p + 1)
         /\ ev.op # "replace" => sel.value = Clamp(pre.sel.value, 1, p + 1)

(***************************************************************************)
(* C9 (as claimed): for selector and demux kinds the control has range     *)
(* [0,0] and value 0 with nothing connected, else range [1, p+1] and the   *)
(* previous value clamped into it.                                         *)
(***************************************************************************)
C9_SelectorAndDemux ==
    (kind \in {"mbSelect", "mbDemux"} /\ InputEvent) => SelectorFollowsLast

(***************************************************************************)
(* C9 (amended): this holds for the selector kind mbSelect only; the       *)
(* control of an mbDemux node is left as it was.                           *)
(***************************************************************************)
C9_SelectorOnly ==
    /\ (kind = "mbSelect" /\ InputEvent) => SelectorFollowsLast
    /\ (kind = "mbDemux" /\ InputEvent) => sel = pre.sel

\* reached: a value above the new range was pulled down to its upper bound
C9_Witness ==
    /\ kind = "mbSelect"
    /\ ev.op = "disconnect"
    /\ pre.sel.value = 2
    /\ sel.max = 1
    /\ sel.value = 1

WildcardOffered ==
    /\ IsMockba
    /\ ~IsEvalKind(kind)
    /\ pre.outType = Wildcard
    /\ ev.ptype = Wildcard
    /\ \/ ev.op = "outConnect"
       \/ ev.op = "connect" /\ ~IsSpecialName(pre.inputs[ev.index].name)

C12_NeverThrows == ~ev.log.threw

(***************************************************************************)
(* C13: src/js/common.js, trim step.  The step removes a slot only on a    *)
(* user disconnect, only the disconnected slot, and only when that slot is *)
(* the last dynamic slot.  On a disconnect of an interior dynamic slot the *)
(* step removes nothing, and every linked dynamic slot after the           *)
(* disconnected one is found at the same index with the same link after    *)
(* the event.                                                              *)
(***************************************************************************)
UserDisconnectEvent == ev.op \in {"disconnect", "rawDisconnect"}

InteriorDisconnect ==
    /\ IsCommon
    /\ UserDisconnectEvent
    /\ ev.index <= Len(pre.inputs)
    /\ ~IsSpecialName(pre.inputs[ev.index].name)
    /\ ev.index < LastDynamicIndex(pre.inputs)

LaterLinked == {i \in (ev.index + 1)..Len(pre.inputs) :
                   ~IsSpecialName(pre.inputs[i].name) /\ pre.inputs[i].link # NoLink}

C13_TrimOnlyLast ==
    /\ (IsCommon /\ ev.log.trimmed # 0) =>
            /\ UserDisconnectEvent
            /\ ev.log.trimmed = ev.index
            /\ ev.index = LastDynamicIndex(pre.inputs)
    /\ InteriorDisconnect =>
            /\ ev.log.trimmed = 0
            /\ \A i \in LaterLinked :
                   i <= Len(inputs) /\ inputs[i].link = pre.inputs[i].link

\* the user disconnected an interior slot and a linked slot after it kept its place
C13_Witness ==
    /\ InteriorDisconnect
    /\ ev.op = "disconnect"
    /\ LaterLinked # {}
    /\ inputs[ev.index].link = NoLink
    /\ Len(inputs) = Len(pre.inputs)

(***************************************************************************)
(* C14: while the host loads a graph, or while a disconnect is raised from *)
(* inside a connect operation, the handling of the disconnection event     *)
(* removes no input slot from the node.                                    *)
(***************************************************************************)
GuardedDisconnect == ev.op \in {"loadDisconnect", "replace", "replaceLost"}

C14_NoRemovalUnderGuard == GuardedDisconnect => ev.log.removed = 0

(***************************************************************************)
(* C20 (as claimed): src/js/common.js - after every synchronized input     *)
(* event, connect as well as disconnect, the callback has resized the node *)
(* to its computed size and marked the canvas dirty.                       *)
(***************************************************************************)
SynchronizedEvent ==
    /\ IsCommon
    /\ ev.op \in {"connect", "replace", "replaceLost", "disconnect", "loadDisconnect", "replay"}

C20_AlwaysRedraws == SynchronizedEvent => ev.log.resized

(***************************************************************************)
(* C20 (amended): src/js/common.js - the callback resizes the node and     *)
(* marks the canvas dirty after a synchronized disconnect event (also the  *)
(* disconnect raised inside a connect onto a linked input); after an event *)
(* that only connects it does neither.                                     *)
(***************************************************************************)
C20_RedrawsOnDisconnect ==
    SynchronizedEvent =>
        (ev.log.resized <=>
            ev.op \in {"replace", "replaceLost", "disconnect", "loadDisconnect"})

\* a user disconnect that removed a slot, after which the callback resized the node
C20_Witness ==
    /\ SynchronizedEvent
    /\ ev.op = "disconnect"
    /\ Len(inputs) < Len(pre.inputs)
    /\ ev.log.resized

(***************************************************************************)
(* C15: every lifecycle hook installed over an existing one calls through. *)
(* On each event the callback that was there before is called exactly     *)
(* once, first, with the receiver and arguments of the event; the wrappers *)
(* then run in registration order; onNodeCreated and onDrawForeground      *)
(* return what the first callback returned.                                *)
(***************************************************************************)
ExpectedCalls(e, n, t, a) ==
    (IF e \in hookOrig THEN <<[fn |-> 0, this |-> t, args |-> a]>> ELSE <<>>)
    \o [i \in 1..n |-> [fn |-> i, this |-> t, args |-> a]]

C15_HooksCallThrough ==
    hookFired.event \in HookEvents =>
        /\ hookFired.calls = ExpectedCalls(hookFired.event, hookFired.wrappers,
                                           hookFired.this, hookFired.args)
        /\ (hookFired.event \in {"onNodeCreated", "onDrawForeground"}
             /\ hookFired.event \in hookOrig) => hookFired.ret = HookReturn(0)

(***************************************************************************)
(* C16: the hidden flag round-trips through the marker.  For every text c, *)
(* hiding and then showing leaves the widget visible with value c; a node  *)
(* serialized while hidden is hidden again after load and the deferred     *)
(* check, and shows value c.                                               *)
(***************************************************************************)
C16_HiddenRoundTrip ==
    /\ (code.op = "show" /\ code.tracked) =>
            code.w.type = "customtext" /\ code.w.value = code.orig
    /\ (code.op = "check" /\ code.sinceLoad /\ code.loadedHidden) =>
            code.w.type = "hidden"
(***************************************************************************)
(* Destroy and recreate.                                                   *)
(***************************************************************************)
\* a node of the graph still carries the title the guard of part_002 tests
DeadInGraph ==
    \E k \in 1..Len(graph.nodes) :
        graph.nodes[k].status = "live" /\ graph.nodes[k].title = "dead"

\* C17: the replacement cannot re-enter itself: no replacement begins while another
\* is in progress, each replacement creates one node and removes only the old one,
\* and after the operation the guard (flag 'fixing', title 'dead') is not set
C17_NoReentry ==
    /\ \A i \in 1..Len(graph.repl) :
          /\ ~graph.repl[i].nested
          /\ graph.repl[i].made = 1
          /\ graph.repl[i].gone = 1
    /\ ~graph.fixing
    /\ ~DeadInGraph

\* C18: a replacement puts the new node at the position of the old one, every link
\* the old node had on an input or on its output when the replacement began is on
\* the same-named socket of the new node, and the old node is not in the graph
C18_LinksCopied ==
    \A i \in 1..Len(graph.repl) :
        /\ graph.repl[i].samePos
        /\ graph.repl[i].copiedIn
        /\ graph.repl[i].copiedOut
        /\ graph.repl[i].oldGone

(***************************************************************************)
(* The Cancel Workflow button.                                             *)
(***************************************************************************)
\* C19: every finished press of 'Cancel Workflow' added exactly one toast, 'info'
\* for an ok response, 'error' for a non-ok response or a failed request, and no
\* failure left the callback
C19_OneToastPerPress ==
    /\ Len(cancel.toasts) = Len(cancel.done)
    /\ \A i \in 1..Len(cancel.done) :
          cancel.toasts[i].severity = IF cancel.done[i] = "ok" THEN "info" ELSE "error"
    /\ ~cancel.rejected

\* presses ended in each of the three ways, one is still waiting
C19_Witness ==
    /\ {cancel.done[i] : i \in 1..Len(cancel.done)} = Outcomes
    /\ cancel.pending > 0


(***************************************************************************)
(* The early returns of src/js/common.js.                                  *)
(***************************************************************************)
\* the last event was on the output side, or it carried no link_info
NonInputEvent ==
    \/ ev.op \in {"rawOutConnect", "rawOutDisconnect", "outConnect", "outDisconnect"}
    \/ ev.op \in RawOps \cup {"replayFree"} /\ ev.ptype = Untyped

\* C28: in src/js/common.js an event that is not on the input side, or that has no
\* link_info, leaves the inputs, the selector and the size of the node as they were
C28_NonInputUnchanged ==
    (IsCommon /\ NonInputEvent) => Snapshot = pre /\ ev.log = NoLog

\* an output link of a node with a linked input was dropped, link_info given
C28_Witness ==
    /\ IsCommon
    /\ ev.op = "rawOutDisconnect"
    /\ ev.ptype # Untyped
    /\ NumConnected(Dyn) >= 1

(***************************************************************************)
(* Synchronization of src/js/common.js on a settled node.                  *)
(***************************************************************************)
\* what the callback makes of the node when a connect event with link_info is
\* delivered for input slot and no link has changed
Redelivered(slot) == CommonHandler(kind, Cur, 1, slot, TRUE, TRUE, "connect")

\* C27: right after an input-side event of src/js/common.js, a connect event
\* delivered again for any slot leaves the inputs (count, order, names, links) and
\* the selector's range and value as they are
C27_Idempotent ==
    (IsCommon /\ InputEvent /\ ~ev.log.threw) =>
        \A slot \in 1..Len(inputs) :
            /\ Redelivered(slot).inputs = inputs
            /\ Redelivered(slot).sel = sel

\* the host delivered the connect event of a linked input again to an mbSelect
\* node with two linked inputs, and nothing changed
C27_Witness ==
    /\ kind = "mbSelect"
    /\ ev.op = "replay"
    /\ NumConnected(Dyn) >= 2
    /\ Snapshot = pre

\* C29: once the deferred check of a node has run, the code widget is of type
\* 'hidden' exactly when its value starts with the marker, and the button reads
\* 'Show Code' exactly when the widget is hidden
C29_TypeFollowsMarker ==
    ~code.w.pending =>
        /\ (code.w.type = "hidden") <=> isCodeHidden(code.w.value)
        /\ (code.w.toggle = "Show Code") <=> (code.w.type = "hidden")

(***************************************************************************)
(* truncateText (style.js): a text is the sequence of the advance widths   *)
(* of its characters, a zero-width character included; the value returned  *)
(* is a prefix of the text and whether the ellipsis follows it.            *)
(***************************************************************************)
MaxLen == 3
MaxCharWidth == 2
MaxWidth == 5
MaxEllipsis == 2

RECURSIVE measureText(_)
\* ctx.measureText(t).width
measureText(t) == IF t = <<>> THEN 0 ELSE t[Len(t)] + measureText(SubSeq(t, 1, Len(t) - 1))

\* text.substring(0, n)
substring0(t, n) == SubSeq(t, 1, Min(Max(n, 0), Len(t)))

TruncArgs ==
    [text : UNION {[1..n -> 0..MaxCharWidth] : n \in 0..MaxLen},
     maxWidth : -1..MaxWidth,
     ellipsisWidth : 1..MaxEllipsis]

\* the call is made, nothing of the body has run
TruncCalled(a) ==
    [text |-> a.text, maxWidth |-> a.maxWidth, ellipsisWidth |-> a.ellipsisWidth,
     low |-> 0, high |-> 0, bestFit |-> 0, iter |-> 0, pc |-> "call",
     result |-> [text |-> <<>>, ellipsis |-> FALSE]]

InitTrunc ==
    /\ SocketIdle
    /\ HooksIdle
    /\ CodeIdle
    /\ RecreateIdle
    /\ CancelIdle
    /\ FmtIdle /\ BatchIdle /\ PickerIdle /\ ViewerIdle
    /\ \E a \in TruncArgs : trunc = TruncCalled(a)

\* the body up to the loop: the two early returns, the loop variables
TruncEnter ==
    /\ trunc.pc = "call"
    /\ LET textWidth == measureText(trunc.text)
           availableWidth == trunc.maxWidth - trunc.ellipsisWidth
       IN  IF textWidth <= trunc.maxWidth \/ trunc.maxWidth <= 0
           THEN trunc' = [trunc EXCEPT !.pc = "done",
                                       !.result = [text |-> trunc.text, ellipsis |-> FALSE]]
           ELSE IF availableWidth <= 0
           THEN trunc' = [trunc EXCEPT !.pc = "done",
                                       !.result = [text |-> <<>>, ellipsis |-> TRUE]]
           ELSE trunc' = [trunc EXCEPT !.pc = "loop", !.low = 0,
                                       !.high = Len(trunc.text), !.bestFit = 0]
    /\ UNCHANGED <<socketVars, hookVars, code, graph, cancel, fmt, batch, picker, viewer>>

\* (mutant) a prefix that fills the available width exactly is rejected
TruncLoopStrict ==
    /\ trunc.pc = "loop"
    /\ LET mid == (trunc.low + trunc.high) \div 2
           testWidth == measureText(substring0(trunc.text, mid))
           availableWidth == trunc.maxWidth - trunc.ellipsisWidth
       IN  IF trunc.low <= trunc.high
           THEN IF testWidth < availableWidth
                THEN trunc' = [trunc EXCEPT !.bestFit = mid, !.low = mid + 1,
                                            !.iter = @ + 1]
                ELSE trunc' = [trunc EXCEPT !.high = mid - 1, !.iter = @ + 1]
           ELSE trunc' = [trunc EXCEPT !.pc = "done",
                              !.result = [text |-> substring0(trunc.text, trunc.bestFit),
                                          ellipsis |-> TRUE]]
    /\ UNCHANGED <<socketVars, hookVars, code, graph, cancel, fmt, batch, picker, viewer>>

\* the test of the while loop, then one iteration of the binary search or the
\* return after the loop
TruncLoop ==
    /\ trunc.pc = "loop"
    /\ LET mid == (trunc.low + trunc.high) \div 2
           testWidth == measureText(substring0(trunc.text, mid))
           availableWidth == trunc.maxWidth - trunc.ellipsisWidth
       IN  IF trunc.low <= trunc.high
           THEN IF testWidth <= availableWidth
                THEN trunc' = [trunc EXCEPT !.bestFit = mid, !.low = mid + 1,
                                            !.iter = @ + 1]
                ELSE trunc' = [trunc EXCEPT !.high = mid - 1, !.iter = @ + 1]
           ELSE trunc' = [trunc EXCEPT !.pc = "done",
                              !.result = [text |-> substring0(trunc.text, trunc.bestFit),
                                          ellipsis |-> TRUE]]
    /\ UNCHANGED <<socketVars, hookVars, code, graph, cancel, fmt, batch, picker, viewer>>

NextTrunc ==
    \/ TruncEnter
    \/ TruncLoop

SpecTrunc == InitTrunc /\ [][NextTrunc]_vars

\* the lengths of the prefixes of the text that fit into width w
FittingPrefixes(w) ==
    {k \in 0..Len(trunc.text) : measureText(substring0(trunc.text, k)) <= w}

\* the longest prefix of the text that fits into width w
LongestFit(w) ==
    substring0(trunc.text,
               CHOOSE k \in FittingPrefixes(w) : \A j \in FittingPrefixes(w) : j <= k)

\* every iteration shrinks the interval low..high that is left to search
TruncTerminates ==
    trunc.pc = "loop" =>
        /\ trunc.low >= 0
        /\ trunc.high <= Len(trunc.text)
        /\ trunc.iter + (trunc.high - trunc.low + 1) <= Len(trunc.text) + 1

\* C21: truncateText returns the text unchanged when its width is at most maxWidth
\* or maxWidth <= 0, only the ellipsis when the ellipsis alone does not fit
\* (its width exceeds maxWidth), and otherwise the longest prefix whose width is at
\* most maxWidth minus the ellipsis width, followed by the ellipsis; the binary
\* search terminates
C21_Truncate ==
    /\ TruncTerminates
    /\ trunc.pc = "done" =>
          IF measureText(trunc.text) <= trunc.maxWidth \/ trunc.maxWidth <= 0
          THEN trunc.result = [text |-> trunc.text, ellipsis |-> FALSE]
          ELSE IF trunc.ellipsisWidth > trunc.maxWidth
          THEN trunc.result = [text |-> <<>>, ellipsis |-> TRUE]
          ELSE trunc.result =
                  [text |-> LongestFit(trunc.maxWidth - trunc.ellipsisWidth),
                   ellipsis |-> TRUE]

\* C21 (amended): as C21, with only the ellipsis returned whenever maxWidth minus
\* the ellipsis width is not positive, the ellipsis filling maxWidth exactly
\* included
C21_TruncateAmended ==
    /\ TruncTerminates
    /\ trunc.pc = "done" =>
          IF measureText(trunc.text) <= trunc.maxWidth \/ trunc.maxWidth <= 0
          THEN trunc.result = [text |-> trunc.text, ellipsis |-> FALSE]
          ELSE IF trunc.maxWidth - trunc.ellipsisWidth <= 0
          THEN trunc.result = [text |-> <<>>, ellipsis |-> TRUE]
          ELSE trunc.result =
                  [text |-> LongestFit(trunc.maxWidth - trunc.ellipsisWidth),
                   ellipsis |-> TRUE]

C21_Witness ==
    /\ trunc.pc = "done"
    /\ trunc.iter >= 2
    /\ trunc.result.ellipsis
    /\ Len(trunc.result.text) \in 1..(Len(trunc.text) - 1)

(***************************************************************************)
(* sprintf (part_008): a format is the sequence of its conversions, each   *)
(* given by the groups the regular expression captures; an argument is     *)
(* named by its place in the argument list (args[i - 1] is argument i).    *)
(***************************************************************************)
MaxDirectives == 2

Positions == 0..2                 \* '%n$' with n = 1, 2; 0: no position
Fields == {"", "*", "5"}          \* width and precision: none, '*', digits

Directives ==
    [position : Positions, width : Fields, precision : Fields, specifier : {"d", "%"}]

\* the replace callback on match d with argIndex = i: the argument read for the
\* value, for the width and for the precision (0: none), and argIndex afterwards
sprintfMatch(d, i) ==
    IF d.specifier = "%"
    THEN [arg |-> 0, minWidth |-> 0, prec |-> 0, argIndex |-> i]
    ELSE LET arg == IF d.position # 0 THEN d.position ELSE i + 1
             i1  == IF d.position # 0 THEN i ELSE i + 1
             minWidth == IF d.width = "*" THEN i1 + 1 ELSE 0
             i2  == IF d.width = "*" THEN i1 + 1 ELSE i1
             prec == IF d.precision = "*" THEN i2 + 1 ELSE 0
             i3  == IF d.precision = "*" THEN i2 + 1 ELSE i2
         IN  [arg |-> arg, minWidth |-> minWidth, prec |-> prec, argIndex |-> i3]

\* what C printf reads for conversion d when i arguments have been consumed: the
\* '*' width, then the '*' precision, then the value
printfMatch(d, i) ==
    IF d.specifier = "%"
    THEN [arg |-> 0, minWidth |-> 0, prec |-> 0, argIndex |-> i]
    ELSE LET minWidth == IF d.width = "*" THEN i + 1 ELSE 0
             i1  == IF d.width = "*" THEN i + 1 ELSE i
             prec == IF d.precision = "*" THEN i1 + 1 ELSE 0
             i2  == IF d.precision = "*" THEN i1 + 1 ELSE i1
             arg == IF d.position # 0 THEN d.position ELSE i2 + 1
             i3  == IF d.position # 0 THEN i2 ELSE i2 + 1
         IN  [arg |-> arg, minWidth |-> minWidth, prec |-> prec, argIndex |-> i3]

InitFmt ==
    /\ SocketIdle
    /\ HooksIdle
    /\ CodeIdle
    /\ RecreateIdle
    /\ CancelIdle
    /\ TruncIdle /\ BatchIdle /\ PickerIdle /\ ViewerIdle
    /\ \E n \in 0..MaxDirectives : \E f \in [1..n -> Directives] :
          fmt = [format |-> f, argIndex |-> 0, reads |-> <<>>]

\* format.replace calls the callback for the next match, left to right
FmtReplace ==
    /\ Len(fmt.reads) < Len(fmt.format)
    /\ LET d == fmt.format[Len(fmt.reads) + 1]
           r == sprintfMatch(d, fmt.argIndex)
       IN  fmt' = [fmt EXCEPT !.argIndex = r.argIndex,
                              !.reads = Append(@, [r EXCEPT !.argIndex = fmt.argIndex])]
    /\ UNCHANGED <<socketVars, hookVars, code, graph, cancel, trunc, batch, picker, viewer>>

NextFmt == FmtReplace

SpecFmt == InitFmt /\ [][NextFmt]_vars

\* C30: sprintf consumes its arguments in the order of C printf: each conversion
\* reads its '*' width first, then its '*' precision, then its value; '%%' reads
\* no argument; a conversion with a position reads the argument at that position
\* and the sequential index does not advance for it
C30_PrintfOrder ==
    \A k \in 1..Len(fmt.reads) :
        LET d == fmt.format[k]
            r == fmt.reads[k]
            after == IF k < Len(fmt.reads) THEN fmt.reads[k + 1].argIndex ELSE fmt.argIndex
            c == printfMatch(d, r.argIndex)
        IN  /\ r.arg = c.arg
            /\ r.minWidth = c.minWidth
            /\ r.prec = c.prec
            /\ after = c.argIndex

(***************************************************************************)
(* Dynamic batch nodes (Mockba.DynamicBatch): the variant of part_010      *)
(* keeps the flag isLoadingWorkflow and shows a dialog of the page, the    *)
(* variant of mockba.js checks the widget twice and asks with prompt().    *)
(* Time passes in steps of Tick milliseconds; a timer is [kind, node,      *)
(* left] and timers that are due fire in the order they were set.          *)
(***************************************************************************)
MinCount == 2
MaxCount == 16
ResetDelay == 100
CheckDelay == 50
FirstDelay == 100
SecondDelay == 500
Tick == 50
MaxBatchOps == 2

BatchVariants == {"part_010", "mockba.js"}
BatchKinds == {"mbBatchInput", "mbBatchOutput"}

\* the values the user can give the count widget, the numbers parseInt can read
\* from the field of the dialog, and the counts a saved workflow can hold
WidgetChoices == {-1, 1, MinCount, MaxCount}
Entered == {1, MinCount, MaxCount, MaxCount + 1}
SavedValues == {-1, MinCount}

\* isInput ? "input_" : "output_"
BatchPrefix(k) == IF k = "mbBatchInput" THEN "input_" ELSE "output_"

\* the socket `${prefix}${n}`, and the input a converted count widget becomes
DynSocket(k, n) == [pfx |-> BatchPrefix(k), n |-> n]
WidgetSocket == [pfx |-> "widget", n |-> 0]

\* name.startsWith("input_") / name.startsWith("output_")
IsBatchDyn(k, s) == s.pfx = BatchPrefix(k)

\* (mutant) the existing dynamic sockets are not removed
setupDynamicConnectionsKeep(k, socks, count) ==
    IF Len(SelectSeq(socks, LAMBDA s : IsBatchDyn(k, s))) # count
    THEN socks \o [i \in 1..count |-> DynSocket(k, i)]
    ELSE socks

\* setupDynamicConnections(count) on the inputs (mbBatchInput) or the outputs
\* (mbBatchOutput) of the node
setupDynamicConnections(k, socks, count) ==
    IF Len(SelectSeq(socks, LAMBDA s : IsBatchDyn(k, s))) # count
    THEN SelectSeq(socks, LAMBDA s : ~IsBatchDyn(k, s)) \o [i \in 1..count |-> DynSocket(k, i)]
    ELSE socks

\* a node after createNode: onNodeCreated has run; data is what configure sets
\*   shown : the popup was shown for the node;  late : it was shown when the
\*   node was not in the graph
BatchNode(k, origin, value) ==
    [origin |-> origin, inGraph |-> TRUE, value |-> value,
     socks |-> IF value > 0 THEN [i \in 1..value |-> DynSocket(k, i)] ELSE <<>>,
     hooked |-> FALSE, popup |-> "none", shown |-> FALSE, late |-> FALSE]

BatchStart(v, k) ==
    [variant |-> v, kind |-> k, flag |-> FALSE, ops |-> 0, loading |-> <<>>,
     nodes |-> <<>>, timers |-> <<>>]

InitBatch ==
    /\ SocketIdle
    /\ HooksIdle
    /\ CodeIdle
    /\ RecreateIdle
    /\ CancelIdle
    /\ TruncIdle /\ FmtIdle /\ PickerIdle /\ ViewerIdle
    /\ \E v \in BatchVariants, k \in BatchKinds : batch = BatchStart(v, k)

batchRest == <<socketVars, hookVars, code, graph, cancel, trunc, fmt, picker, viewer>>

\* the timer onNodeCreated sets for node n
CheckTimer(v, n) ==
    IF v = "part_010" THEN [kind |-> "check", node |-> n, left |-> CheckDelay]
    ELSE [kind |-> "first", node |-> n, left |-> FirstDelay]

\* a dialog of the page is open (its backdrop covers the editor)
DialogOpen == \E n \in 1..Len(batch.nodes) : batch.nodes[n].popup = "open"

\* the user adds a batch node to the graph
AddBatchNode ==
    /\ batch.ops < MaxBatchOps
    /\ ~DialogOpen
    /\ batch' = [batch EXCEPT
          !.ops = @ + 1,
          !.nodes = Append(@, BatchNode(batch.kind, "user", -1)),
          !.timers = Append(@, CheckTimer(batch.variant, Len(batch.nodes) + 1))]
    /\ UNCHANGED batchRest

\* app.loadGraphData(graphData): the wrapper of part_010 sets the flag and the
\* timer of its reset; the host creates the nodes later in the call
LoadGraphData(saved) ==
    /\ batch.ops < MaxBatchOps
    /\ ~DialogOpen
    /\ batch' = [batch EXCEPT
          !.ops = @ + 1,
          !.loading = Append(@, saved),
          !.flag = IF batch.variant = "part_010" THEN TRUE ELSE @,
          !.timers = IF batch.variant = "part_010"
                     THEN Append(@, [kind |-> "reset", node |-> 0, left |-> ResetDelay])
                     ELSE @]
    /\ UNCHANGED batchRest

\* the host clears the graph and creates and configures the node of the workflow
LoadCreates ==
    /\ batch.loading # <<>>
    /\ batch' = [batch EXCEPT
          !.loading = Tail(@),
          !.nodes = Append([n \in 1..Len(@) |-> [@[n] EXCEPT !.inGraph = FALSE]],
                           BatchNode(batch.kind, "load", Head(batch.loading))),
          !.timers = Append(@, CheckTimer(batch.variant, Len(batch.nodes) + 1))]
    /\ UNCHANGED batchRest

\* the user deletes node n
RemoveBatchNode(n) ==
    /\ batch.ops < MaxBatchOps
    /\ batch.nodes[n].inGraph
    /\ ~DialogOpen
    /\ batch' = [batch EXCEPT !.ops = @ + 1, !.nodes[n].inGraph = FALSE]
    /\ UNCHANGED batchRest

\* the user converts the count widget of an mbBatchInput node to an input
ConvertWidget(n) ==
    /\ batch.kind = "mbBatchInput"
    /\ batch.nodes[n].inGraph
    /\ ~DialogOpen
    /\ \A i \in 1..Len(batch.nodes[n].socks) : batch.nodes[n].socks[i] # WidgetSocket
    /\ batch.ops < MaxBatchOps
    /\ batch' = [batch EXCEPT !.ops = @ + 1, !.nodes[n].socks = Append(@, WidgetSocket)]
    /\ UNCHANGED batchRest

\* the user sets the count widget of node n to value: the callback installed by
\* the deferred check runs, if (value > 0) this.setupDynamicConnections(value)
SetCountWidget(n, value) ==
    /\ batch.nodes[n].inGraph
    /\ ~DialogOpen
    /\ value # batch.nodes[n].value
    /\ batch.ops < MaxBatchOps
    /\ batch' = [batch EXCEPT
          !.ops = @ + 1,
          !.nodes[n].value = value,
          !.nodes[n].socks = IF batch.nodes[n].hooked /\ value > 0
                             THEN setupDynamicConnections(batch.kind, @, value)
                             ELSE @]
    /\ UNCHANGED batchRest

\* Tick milliseconds pass; no timer is due
Elapse ==
    /\ batch.timers # <<>>
    /\ \A i \in 1..Len(batch.timers) : batch.timers[i].left > 0
    /\ batch' = [batch EXCEPT
          !.timers = [i \in 1..Len(@) |-> [@[i] EXCEPT !.left = Max(0, @ - Tick)]]]
    /\ UNCHANGED batchRest

\* the node n after the popup was answered with a count in 2..16 / was cancelled
Accepted(k, node, count) ==
    [node EXCEPT !.value = count, !.socks = setupDynamicConnections(k, @, count),
                 !.popup = "accepted"]
Cancelled(node) == [node EXCEPT !.inGraph = FALSE, !.popup = "cancelled"]

\* showConfigurationPopup is called for the node
Shown(node) == [node EXCEPT !.shown = TRUE, !.late = ~node.inGraph]

\* the first timer that is due fires
FireTimer ==
    \E i \in 1..Len(batch.timers) :
        /\ batch.timers[i].left = 0
        /\ \A j \in 1..(i - 1) : batch.timers[j].left > 0
        /\ LET t == batch.timers[i]
               rest == RemoveAt(batch.timers, i)
               node == IF t.node > 0 THEN [batch.nodes[t.node] EXCEPT !.hooked = TRUE]
                       ELSE BatchNode(batch.kind, "user", -1)
               \* else if (configWidget.value > 0) this.setupDynamicConnections(value)
               configured == IF node.value > 0
                             THEN [node EXCEPT !.socks =
                                       setupDynamicConnections(batch.kind, @, node.value)]
                             ELSE node
           IN  CASE t.kind = "reset" ->
                      batch' = [batch EXCEPT !.flag = FALSE, !.timers = rest]
                 [] t.kind = "check" ->
                      IF ~batch.flag /\ node.value = -1
                      THEN batch' = [batch EXCEPT !.timers = rest,
                                        !.nodes[t.node] = [Shown(node) EXCEPT !.popup = "open"]]
                      ELSE batch' = [batch EXCEPT !.timers = rest,
                                                  !.nodes[t.node] = configured]
                 [] t.kind = "first" ->
                      IF node.value = -1
                      THEN batch' = [batch EXCEPT !.nodes[t.node] = node,
                                !.timers = Append(rest, [kind |-> "second", node |-> t.node,
                                                         left |-> SecondDelay])]
                      ELSE batch' = [batch EXCEPT !.timers = rest,
                                                  !.nodes[t.node] = configured]
                 [] t.kind = "second" ->
                      IF node.value = -1
                      THEN \* prompt() until a count in 2..16 is given or it is cancelled
                           \E answer \in {0} \cup {c \in Entered : c >= MinCount /\ c <= MaxCount} :
                              batch' = [batch EXCEPT !.timers = rest,
                                  !.nodes[t.node] =
                                      IF answer = 0 THEN Cancelled(Shown(node))
                                      ELSE Accepted(batch.kind, Shown(node), answer)]
                      ELSE batch' = [batch EXCEPT !.timers = rest]
        /\ UNCHANGED batchRest

\* OK (or Enter) in the dialog of node n with parseInt(input.value) = value
PopupConfirm(n, value) ==
    /\ batch.nodes[n].popup = "open"
    /\ IF value >= MinCount /\ value <= MaxCount
       THEN batch' = [batch EXCEPT !.nodes[n] = Accepted(batch.kind, @, value)]
       ELSE UNCHANGED batch
    /\ UNCHANGED batchRest

\* Cancel, Escape or a click on the backdrop: app.graph.remove(node); cleanup()
PopupCancel(n) ==
    /\ batch.nodes[n].popup = "open"
    /\ batch' = [batch EXCEPT !.nodes[n] = Cancelled(@)]
    /\ UNCHANGED batchRest

NextBatch ==
    \/ AddBatchNode
    \/ \E saved \in SavedValues : LoadGraphData(saved)
    \/ LoadCreates
    \/ \E n \in 1..Len(batch.nodes) : RemoveBatchNode(n)
    \/ \E n \in 1..Len(batch.nodes) : ConvertWidget(n)
    \/ \E n \in 1..Len(batch.nodes), value \in WidgetChoices : SetCountWidget(n, value)
    \/ Elapse
    \/ FireTimer
    \/ \E n \in 1..Len(batch.nodes), value \in Entered : PopupConfirm(n, value)
    \/ \E n \in 1..Len(batch.nodes) : PopupCancel(n)

SpecBatch == InitBatch /\ [][NextBatch]_vars

\* the dynamic sockets and the other sockets of a socket list
BatchDyn(socks) == SelectSeq(socks, LAMBDA s : IsBatchDyn(batch.kind, s))
BatchOther(socks) == SelectSeq(socks, LAMBDA s : ~IsBatchDyn(batch.kind, s))

\* the counts setupDynamicConnections is called with
BatchCounts == {c \in WidgetChoices \cup Entered : c > 0}

\* C22: the configuration popup is only shown for a node that was not created by
\* loading a workflow, and never for a node that has been removed from the graph
C22_PopupOnlyForNewNode ==
    \A n \in 1..Len(batch.nodes) :
        batch.nodes[n].shown => batch.nodes[n].origin = "user" /\ ~batch.nodes[n].late

\* C23: setupDynamicConnections(count) leaves exactly count dynamic sockets, named
\* input_1..input_count (output_1..output_count) in order, leaves every other
\* socket as it was, and a second call with the same count changes nothing
C23_SetupExact ==
    \A n \in 1..Len(batch.nodes) : \A count \in BatchCounts :
        LET after == setupDynamicConnections(batch.kind, batch.nodes[n].socks, count)
        IN  /\ BatchDyn(after) = [i \in 1..count |-> DynSocket(batch.kind, i)]
            /\ BatchOther(after) = BatchOther(batch.nodes[n].socks)
            /\ setupDynamicConnections(batch.kind, after, count) = after

C23_Witness ==
    \E n \in 1..Len(batch.nodes) :
        /\ batch.nodes[n].hooked
        /\ Len(batch.nodes[n].socks) = MaxCount + 1
        /\ batch.nodes[n].socks[1] = WidgetSocket

\* C24: a batch node has no dynamic socket or between 2 and 16 of them; a popup
\* that was accepted left a count in 2..16 in the widget, a popup that was
\* cancelled left the node removed
C24_CountInRange ==
    \A n \in 1..Len(batch.nodes) :
        /\ \/ Len(BatchDyn(batch.nodes[n].socks)) = 0
           \/ Len(BatchDyn(batch.nodes[n].socks)) \in MinCount..MaxCount
        /\ batch.nodes[n].popup = "cancelled" => ~batch.nodes[n].inGraph

(***************************************************************************)
(* Color picking (ColorPickerUtils.startColorPicking): a session is one    *)
(* call, [saved, active, style, timer, listening]; img is the              *)
(* style.pointerEvents of the img / canvas elements of the page, changed   *)
(* tells whether the last event wrote a color widget.                      *)
(***************************************************************************)
MaxSessions == 3

\* values of style.pointerEvents an element can have before any picking
PointerEvents == {"", "none", "auto"}

PickerStart(pe) ==
    [orig |-> pe, img |-> pe, sessions |-> <<>>, changed |-> FALSE, stray |-> FALSE]

InitPicker ==
    /\ SocketIdle
    /\ HooksIdle
    /\ CodeIdle
    /\ RecreateIdle
    /\ CancelIdle
    /\ TruncIdle /\ FmtIdle /\ BatchIdle /\ ViewerIdle
    /\ \E pe \in PointerEvents : picker = PickerStart(pe)

pickerRest == <<socketVars, hookVars, code, graph, cancel, trunc, fmt, batch, viewer>>

\* the callback of the 'Pick Color' button: startColorPicking(node)
startColorPicking ==
    /\ Len(picker.sessions) < MaxSessions
    /\ picker' = [picker EXCEPT
          !.img = "auto",
          !.sessions = Append(@, [saved |-> picker.img, active |-> TRUE, style |-> TRUE,
                                  timer |-> TRUE, listening |-> FALSE]),
          !.changed = FALSE]
    /\ UNCHANGED pickerRest

\* the function given to setTimeout(..., 100) by the oldest session that waits
ListenTimer ==
    \E i \in 1..Len(picker.sessions) :
        /\ picker.sessions[i].timer
        /\ \A j \in 1..(i - 1) : ~picker.sessions[j].timer
        /\ picker' = [picker EXCEPT !.sessions[i].timer = FALSE,
                                    !.sessions[i].listening = picker.sessions[i].active,
                                    !.changed = FALSE]
        /\ UNCHANGED pickerRest

RECURSIVE stopListening(_, _)
\* the event reaches the listeners in the order they were registered, from
\* session i on; each of them ends in stopColorPicking
stopListening(p, i) ==
    IF i > Len(p.sessions) THEN p
    ELSE IF p.sessions[i].listening /\ p.sessions[i].active
    THEN stopListening([p EXCEPT !.img = p.sessions[i].saved,
                                 !.sessions[i].active = FALSE,
                                 !.sessions[i].style = FALSE,
                                 !.sessions[i].listening = FALSE], i + 1)
    ELSE stopListening(p, i + 1)

\* some session has its listeners registered
Listening(p) == \E i \in 1..Len(p.sessions) : p.sessions[i].listening

\* some session has not ended
Picking(p) == \E i \in 1..Len(p.sessions) : p.sessions[i].active

\* a click on target: pickColor of every registered session
ClickPage(target) ==
    /\ picker.sessions # <<>>
    /\ picker' = [stopListening(picker, 1) EXCEPT
          !.changed = Listening(picker) /\ target \in {"IMG", "CANVAS"},
          !.stray = @ \/ (~Picking(picker) /\ Listening(picker)
                             /\ target \in {"IMG", "CANVAS"})]
    /\ UNCHANGED pickerRest

\* a key: cancelPicking of every registered session
KeyDown(key) ==
    /\ picker.sessions # <<>>
    /\ picker' = IF key = "Escape" THEN [stopListening(picker, 1) EXCEPT !.changed = FALSE]
                 ELSE [picker EXCEPT !.changed = FALSE]
    /\ UNCHANGED pickerRest

NextPicker ==
    \/ startColorPicking
    \/ ListenTimer
    \/ \E target \in {"IMG", "CANVAS", "DIV"} : ClickPage(target)
    \/ \E key \in {"Escape", "a"} : KeyDown(key)

SpecPicker == InitPicker /\ [][NextPicker]_vars

\* C25: once every picking session that was started has ended, the images have
\* the pointer-events value they had before the first session, no injected style
\* element is left, no listener of a session is registered, and no click has
\* changed a color widget after the sessions had ended
C25_PageRestored ==
    (picker.sessions # <<>> /\ ~Picking(picker)) =>
        /\ picker.img = picker.orig
        /\ \A i \in 1..Len(picker.sessions) :
              ~picker.sessions[i].style /\ ~picker.sessions[i].listening
        /\ ~picker.stray

(***************************************************************************)
(* Image viewers (mbImageShow, mbPlotter): result i is the i-th execution  *)
(* result delivered to onExecuted; loads[i] is the state of the Image      *)
(* made for it ("none": the result carried no image).                      *)
(***************************************************************************)
MaxResults == 3

ViewerKinds == {"mbImageShow", "mbPlotter"}

\* the name of the image widget
ImageWidgetName(k) == IF k = "mbImageShow" THEN "image_show" ELSE "plot_image"

\* the widgets the node has before the first result
NodeWidgets == {<<>>, <<"title">>}

InitViewer ==
    /\ SocketIdle
    /\ HooksIdle
    /\ CodeIdle
    /\ RecreateIdle
    /\ CancelIdle
    /\ TruncIdle /\ FmtIdle /\ BatchIdle /\ PickerIdle
    /\ \E k \in ViewerKinds, w \in NodeWidgets :
          viewer = [kind |-> k, widgets |-> w, image |-> 0, loads |-> <<>>]

viewerRest == <<socketVars, hookVars, code, graph, cancel, trunc, fmt, batch, picker>>

\* onExecuted(message): the widget is looked up by name and created if missing,
\* a new Image is made and its src set
onExecuted(hasImage) ==
    /\ Len(viewer.loads) < MaxResults
    /\ IF hasImage
       THEN viewer' = [viewer EXCEPT
               !.widgets = IF \E i \in 1..Len(@) : @[i] = ImageWidgetName(viewer.kind)
                           THEN @ ELSE Append(@, ImageWidgetName(viewer.kind)),
               !.loads = Append(@, "pending")]
       ELSE viewer' = [viewer EXCEPT !.loads = Append(@, "none")]
    /\ UNCHANGED viewerRest

\* img.onload of the image of result i: imageWidget.image = img
ImageLoaded(i) ==
    /\ viewer.loads[i] = "pending"
    /\ viewer' = [viewer EXCEPT !.loads[i] = "loaded", !.image = i]
    /\ UNCHANGED viewerRest

\* img.onerror of the image of result i
ImageFailed(i) ==
    /\ viewer.loads[i] = "pending"
    /\ viewer' = [viewer EXCEPT !.loads[i] = "failed"]
    /\ UNCHANGED viewerRest

NextViewer ==
    \/ \E hasImage \in BOOLEAN : onExecuted(hasImage)
    \/ \E i \in 1..Len(viewer.loads) : ImageLoaded(i)
    \/ \E i \in 1..Len(viewer.loads) : ImageFailed(i)

SpecViewer == InitViewer /\ [][NextViewer]_vars

\* the results whose image has loaded
LoadedResults == {i \in 1..Len(viewer.loads) : viewer.loads[i] = "loaded"}

\* C26: once every image load has completed or failed, the image widget shows the
\* image of the most recent result that loaded, never an older one; the node
\* holds at most one widget with the name of the image widget
C26_ShowsLatestLoaded ==
    /\ (\A i \in 1..Len(viewer.loads) : viewer.loads[i] # "pending") =>
          /\ LoadedResults = {} => viewer.image = 0
          /\ LoadedResults # {} =>
                viewer.image \in LoadedResults /\ \A i \in LoadedResults : i <= viewer.image
    /\ Cardinality({i \in 1..Len(viewer.widgets) :
                      viewer.widgets[i] = ImageWidgetName(viewer.kind)}) <= 1
====
